---- MODULE Spec2Model ----
(***************************************************************************)
(* Verification model of the Media-Search ranking core:                    *)
(*   services/vocabulary.py, services/metadata_matcher.py,                 *)
(*   services/query_parser.py, services/query_expansion.py,                *)
(*   services/embeddings.py (score calibration) and services/search.py.    *)
(*                                                                         *)
(* Conventions                                                             *)
(*   - Python None is the string None ("<None>"); "" is the empty string.  *)
(*   - A query is its sequence of whitespace-separated words, the words    *)
(*     being joined by single spaces; a search term is a word sequence.    *)
(*   - Sub-scores are tenths (10 = 1.0), weights are twentieths            *)
(*     (6 = 0.30).  A meta score is an exact fraction [num, den].          *)
(*     Calibrated scores are hundredths; a combined score is an exact      *)
(*     fraction [num, den] of thousandths (500/1 = 0.5).  Scores of        *)
(*     normal_search are ten-thousandths.  Floating-point rounding is not  *)
(*     modelled.                                                           *)
(***************************************************************************)
EXTENDS Integers, Sequences, FiniteSets, TLC

None == "<None>"

\* Python truthiness of an optional string attribute.
Truthy(v) == v # None /\ v # ""

----------------------------------------------------------------------------
(* Exact fractions *)

Frac(n, d) == [num |-> n, den |-> d]

FZero == Frac(0, 1)

FGt(a, b) == a.num * b.den > b.num * a.den

FGeq(a, b) == a.num * b.den >= b.num * a.den

FEq(a, b) == a.num * b.den = b.num * a.den

----------------------------------------------------------------------------
(* str.lower() and str.strip() on the strings that occur in the model *)

lower(s) ==
    CASE s = "MAN " -> "man "
      [] s = "Street" -> "street"
      [] s = "Dog" -> "dog"
      [] OTHER -> s

strip(s) ==
    CASE s = "MAN " -> "MAN"
      [] s = "man " -> "man"
      [] OTHER -> s

----------------------------------------------------------------------------
(* services/vocabulary.py *)

\* dict in insertion order: <<canonical, members>>
OBJECT_SYNONYMS ==
    << <<"person", {"man", "woman", "boy", "girl", "child", "human", "people", "guy", "lady", "kid"}>>,
       <<"vehicle", {"car", "truck", "bus", "motorcycle", "bike", "automobile", "van"}>>,
       <<"animal", {"dog", "cat", "bird", "horse", "cow", "pet"}>>,
       <<"building", {"house", "apartment", "skyscraper", "office", "store", "shop"}>> >>

ACTION_SYNONYMS ==
    << <<"walking", {"walk", "strolling", "slow walking", "ambling"}>>,
       <<"running", {"run", "jogging", "sprinting", "dashing"}>>,
       <<"sitting", {"sit", "seated", "resting"}>>,
       <<"standing", {"stand", "upright", "waiting"}>>,
       <<"eating", {"eat", "dining", "having food"}>>,
       <<"talking", {"talk", "speaking", "chatting", "conversing"}>> >>

TIME_SYNONYMS ==
    << <<"day", {"daytime", "afternoon", "midday", "bright"}>>,
       <<"night", {"nighttime", "dark", "evening", "midnight"}>>,
       <<"sunset", {"dusk", "twilight", "golden hour"}>>,
       <<"dawn", {"sunrise", "early morning", "daybreak"}>> >>

SCENE_SYNONYMS ==
    << <<"street", {"road", "sidewalk", "pavement", "avenue"}>>,
       <<"indoor", {"inside", "interior", "room", "indoors"}>>,
       <<"outdoor", {"outside", "exterior", "outdoors"}>>,
       <<"beach", {"shore", "seaside", "coast"}>>,
       <<"park", {"garden", "green space", "lawn"}>>,
       <<"city", {"urban", "downtown", "metropolitan"}>> >>

\* The least index of the set hits, 0 when it is empty: the entry at which a
\* loop over a table stops.
FirstIndex(hits) ==
    IF hits = {} THEN 0 ELSE CHOOSE i \in hits : \A j \in hits : i <= j

\* for category, members in OBJECT_SYNONYMS.items(): if x in members -> category
CategoryOfMember(x) ==
    LET i == FirstIndex({k \in 1..Len(OBJECT_SYNONYMS) : x \in OBJECT_SYNONYMS[k][2]})
    IN IF i = 0 THEN None ELSE OBJECT_SYNONYMS[i][1]

normalize_object(obj) ==
    LET obj_lower == strip(lower(obj))
        i == FirstIndex({k \in 1..Len(OBJECT_SYNONYMS) :
                            \/ obj_lower = OBJECT_SYNONYMS[k][1]
                            \/ obj_lower \in OBJECT_SYNONYMS[k][2]})
    IN IF i = 0 THEN obj_lower ELSE OBJECT_SYNONYMS[i][1]

get_object_hierarchy(obj) ==
    LET obj_lower == lower(obj)
        cat == CategoryOfMember(obj_lower)
    IN IF cat # None THEN <<obj_lower, cat>> ELSE <<obj_lower>>

get_action_similarity(action1, action2) ==
    IF ~Truthy(action1) \/ ~Truthy(action2) THEN 0
    ELSE LET a1 == strip(lower(action1))
             a2 == strip(lower(action2))
             both == {k \in 1..Len(ACTION_SYNONYMS) :
                         /\ a1 = ACTION_SYNONYMS[k][1] \/ a1 \in ACTION_SYNONYMS[k][2]
                         /\ a2 = ACTION_SYNONYMS[k][1] \/ a2 \in ACTION_SYNONYMS[k][2]}
         IN IF a1 = a2 THEN 10
            ELSE IF FirstIndex(both) # 0 THEN 8
            ELSE 0

----------------------------------------------------------------------------
(* services/metadata_matcher.py *)

SeqRange(s) == {s[i] : i \in 1..Len(s)}

Min(a, b) == IF a <= b THEN a ELSE b

SetMax(S) == IF S = {} THEN 0 ELSE CHOOSE x \in S : \A y \in S : y <= x

\* [normalize_object(o) for o in objects]
\* A plausible slip: the objects are compared as given.
NormalizeAll_raw(objects) == objects

\* [normalize_object(o) for o in objects]
NormalizeAll(objects) == [i \in 1..Len(objects) |-> normalize_object(objects[i])]

\* One iteration of the inner loop of match_objects: the if/elif chain.
ObjectPairScore(q_obj, i_obj) ==
    LET q_hierarchy == get_object_hierarchy(q_obj)
        i_hierarchy == get_object_hierarchy(i_obj)
    IN IF q_obj = i_obj THEN 10
       ELSE IF Len(q_hierarchy) > 1 /\ q_hierarchy[2] \in SeqRange(i_hierarchy) THEN 8
       ELSE IF Len(i_hierarchy) > 1 /\ i_hierarchy[2] \in SeqRange(q_hierarchy) THEN 9
       ELSE IF q_hierarchy[Len(q_hierarchy)] = i_hierarchy[Len(i_hierarchy)] THEN 6
       ELSE 0

match_objects(query_objects, image_objects) ==
    IF query_objects = <<>> \/ image_objects = <<>> THEN 0
    ELSE LET query_normalized == NormalizeAll(query_objects)
             image_normalized == NormalizeAll(image_objects)
         IN SetMax({ObjectPairScore(query_normalized[i], image_normalized[j]) :
                       i \in 1..Len(query_normalized), j \in 1..Len(image_normalized)})

night_variants == {"night", "nighttime", "dark", "evening", "midnight"}

day_variants == {"day", "daytime", "afternoon", "bright", "midday"}

match_time(query_time, image_time) ==
    IF ~Truthy(image_time) THEN 0
    ELSE LET q == lower(query_time)
             i == lower(image_time)
         IN IF q = i THEN 10
            ELSE IF q \in night_variants /\ i \in night_variants THEN 9
            ELSE IF q \in day_variants /\ i \in day_variants THEN 9
            ELSE 0

match_exact_or_zero(query_val, image_val) ==
    IF ~Truthy(image_val) THEN 0
    ELSE IF lower(query_val) = lower(image_val) THEN 10 ELSE 0

\* weights of compute_match_score when none are passed (twentieths)
DefaultWeights ==
    [objects |-> 6, action |-> 6, time |-> 4, scene |-> 2, weather |-> 1, emotion |-> 1]

\* The six "if query_attrs.get(...)" blocks: <<sub-score, weight>> added by
\* each block, <<0, 0>> when the block is skipped.
MatchTerms(query_attrs, image_metadata, weights) ==
    << IF query_attrs.objects # <<>>
         THEN <<match_objects(query_attrs.objects, image_metadata.objects), weights.objects>>
         ELSE <<0, 0>>,
       IF Truthy(query_attrs.action)
         THEN <<get_action_similarity(query_attrs.action, image_metadata.action), weights.action>>
         ELSE <<0, 0>>,
       IF Truthy(query_attrs.time)
         THEN <<match_time(query_attrs.time, image_metadata.time), weights.time>>
         ELSE <<0, 0>>,
       IF Truthy(query_attrs.scene)
         THEN <<match_exact_or_zero(query_attrs.scene, image_metadata.scene), weights.scene>>
         ELSE <<0, 0>>,
       IF Truthy(query_attrs.weather)
         THEN <<match_exact_or_zero(query_attrs.weather, image_metadata.weather), weights.weather>>
         ELSE <<0, 0>>,
       IF Truthy(query_attrs.emotion)
         THEN <<match_exact_or_zero(query_attrs.emotion, image_metadata.emotion), weights.emotion>>
         ELSE <<0, 0>> >>

RECURSIVE SumScore(_, _)
SumScore(terms, n) == IF n = 0 THEN 0 ELSE SumScore(terms, n - 1) + terms[n][1] * terms[n][2]

RECURSIVE SumWeight(_, _)
SumWeight(terms, n) == IF n = 0 THEN 0 ELSE SumWeight(terms, n - 1) + terms[n][2]

\* A plausible slip: every weight enters the denominator, present or not.
compute_match_score_all_weights(query_attrs, image_metadata, weights) ==
    LET terms == MatchTerms(query_attrs, image_metadata, weights)
        total_score == SumScore(terms, 6)
        total_weight == weights.objects + weights.action + weights.time
                        + weights.scene + weights.weather + weights.emotion
    IN IF total_weight = 0 THEN FZero ELSE Frac(total_score, 10 * total_weight)

\* total_score / total_weight, 0.0 when total_weight == 0
compute_match_score(query_attrs, image_metadata, weights) ==
    LET terms == MatchTerms(query_attrs, image_metadata, weights)
        total_score == SumScore(terms, 6)
        total_weight == SumWeight(terms, 6)
    IN IF total_weight = 0 THEN FZero ELSE Frac(total_score, 10 * total_weight)

\* The loop body of level >= 1: normalized, then its category when it is a
\* member of one (for/else).
\* A plausible slip: an object is left as it is.
RelaxObject_kept(obj) == obj

RelaxObject(obj) ==
    LET normalized == normalize_object(obj)
        cat == CategoryOfMember(normalized)
    IN IF cat # None THEN cat ELSE normalized

RelaxObjects(objects) == [i \in 1..Len(objects) |-> RelaxObject(objects[i])]

\* A plausible slip: level 3 also drops the time constraint.
apply_relaxation_clearing_time(query_attrs, lvl) ==
    LET r1 == IF lvl >= 1 /\ query_attrs.objects # <<>>
                THEN [query_attrs EXCEPT !.objects = RelaxObjects(query_attrs.objects)]
                ELSE query_attrs
        r2 == IF lvl >= 2 THEN [r1 EXCEPT !.scene = None] ELSE r1
    IN IF lvl >= 3 THEN [r2 EXCEPT !.weather = None, !.emotion = None, !.time = None] ELSE r2

apply_relaxation(query_attrs, lvl) ==
    LET r1 == IF lvl >= 1 /\ query_attrs.objects # <<>>
                THEN [query_attrs EXCEPT !.objects = RelaxObjects(query_attrs.objects)]
                ELSE query_attrs
        r2 == IF lvl >= 2 THEN [r1 EXCEPT !.scene = None] ELSE r1
    IN IF lvl >= 3 THEN [r2 EXCEPT !.weather = None, !.emotion = None] ELSE r2

----------------------------------------------------------------------------
(* Words and substring tests *)

MaxTokens == 3

\* The words a query of the model is made of.
Words ==
    {"man", "young", "walking", "wearing", "evening", "at", "night", "road",
     "on", "street", "dog", "Dog", "happy", "unhappy", "running"}

Queries == UNION {[1..n -> Words] : n \in 0..MaxTokens}

\* The lower-cased words of the model that end with / start with / contain
\* the given string (Python's "in" on query_lower is a substring test).
EndingWith(x) == IF x = "ing" THEN {"walking", "wearing", "evening", "running"} ELSE {x}

StartingWith(x) == {x}

Containing(x) == IF x = "happy" THEN {"happy", "unhappy"} ELSE {x}

\* phrase in query_lower, the phrase being a sequence of words
PhraseIn(phrase, tokens) ==
    LET n == Len(phrase)
    IN IF n = 1
         THEN \E i \in 1..Len(tokens) : tokens[i] \in Containing(phrase[1])
         ELSE \E i \in 1..(Len(tokens) - n + 1) :
                 /\ tokens[i] \in EndingWith(phrase[1])
                 /\ \A k \in 2..(n - 1) : tokens[i + k - 1] = phrase[k]
                 /\ tokens[i + n - 1] \in StartingWith(phrase[n])

RECURSIVE SelectSeqBy(_, _)
SelectSeqBy(s, S) ==
    IF s = <<>> THEN <<>>
    ELSE IF Head(s) \in S THEN <<Head(s)>> \o SelectSeqBy(Tail(s), S)
    ELSE SelectSeqBy(Tail(s), S)

\* First element of s that lies in S, None when there is none (for ... break).
FirstIn(s, S) == LET t == SelectSeqBy(s, S) IN IF t = <<>> THEN None ELSE t[1]

\* query.lower(), word by word
LowerAll(words) == [i \in 1..Len(words) |-> lower(words[i])]

VocabularyOf(table) == UNION {{table[i][1]} \cup table[i][2] : i \in 1..Len(table)}

----------------------------------------------------------------------------
(* services/query_parser.py *)

all_objects == VocabularyOf(OBJECT_SYNONYMS)

all_actions == VocabularyOf(ACTION_SYNONYMS)

all_times == VocabularyOf(TIME_SYNONYMS)

all_scenes == VocabularyOf(SCENE_SYNONYMS)

person_patterns ==
    << <<"young", "man">>, <<"old", "man">>, <<"young", "woman">>,
       <<"old", "woman">>, <<"little", "boy">>, <<"little", "girl">> >>

weather_terms == <<"sunny", "rainy", "cloudy", "snowy", "foggy", "stormy", "clear">>

emotion_terms ==
    <<"happy", "sad", "angry", "surprised", "scared", "smiling", "laughing", "crying">>

RECURSIVE PatternObjects(_, _)
PatternObjects(patterns, tokens) ==
    IF patterns = <<>> THEN <<>>
    ELSE (IF PhraseIn(Head(patterns), tokens)
            THEN <<Head(patterns)[Len(Head(patterns))]>> ELSE <<>>)
         \o PatternObjects(Tail(patterns), tokens)

\* for term in terms: if term in query_lower: ...; break
FirstTermIn(terms, tokens) ==
    LET hits == {i \in 1..Len(terms) : PhraseIn(<<terms[i]>>, tokens)}
    IN IF hits = {} THEN None ELSE terms[CHOOSE i \in hits : \A j \in hits : i <= j]

ParseObjects(tokens) ==
    SelectSeqBy(tokens, all_objects) \o PatternObjects(person_patterns, tokens)

\* The vocabulary loop, then the "-ing" loop, which assigns whenever it finds
\* a word ending in "ing" outside the vocabulary.
ParseAction(tokens) ==
    LET vocab == FirstIn(tokens, all_actions)
        ing == FirstIn(tokens, EndingWith("ing") \ all_actions)
    IN IF ing # None THEN ing ELSE vocab

ParseTime(tokens) ==
    IF PhraseIn(<<"at", "night">>, tokens) \/ PhraseIn(<<"during", "night">>, tokens)
      THEN "night"
    ELSE IF \/ PhraseIn(<<"at", "day">>, tokens)
            \/ PhraseIn(<<"during", "day">>, tokens)
            \/ PhraseIn(<<"daytime">>, tokens)
      THEN "day"
    ELSE FirstIn(tokens, all_times)

ParseScene(tokens) ==
    IF PhraseIn(<<"on", "the", "street">>, tokens) \/ PhraseIn(<<"on", "street">>, tokens)
      THEN "street"
    ELSE IF PhraseIn(<<"at", "the", "beach">>, tokens) \/ PhraseIn(<<"on", "beach">>, tokens)
      THEN "beach"
    ELSE IF PhraseIn(<<"in", "the", "park">>, tokens) \/ PhraseIn(<<"at", "park">>, tokens)
      THEN "park"
    ELSE FirstIn(tokens, all_scenes)

parse_query(query) ==
    LET tokens == LowerAll(query)
    IN [objects |-> ParseObjects(tokens),
        action |-> ParseAction(tokens),
        time |-> ParseTime(tokens),
        scene |-> ParseScene(tokens),
        weather |-> FirstTermIn(weather_terms, tokens),
        emotion |-> FirstTermIn(emotion_terms, tokens),
        raw_query |-> query]

\* weights deep_search passes to compute_match_score (twentieths)
get_query_importance ==
    [objects |-> 14, action |-> 20, time |-> 18, scene |-> 12, weather |-> 8, emotion |-> 10]

----------------------------------------------------------------------------
(* services/query_expansion.py *)

\* The entries of QUERY_EXPANSIONS_LOWER whose key is a word of the model;
\* a term is a sequence of words.
QUERY_EXPANSIONS_LOWER ==
    [dog |-> << <<"dog">>, <<"puppy">>, <<"canine">>, <<"pet">>, <<"animal">>, <<"pup">> >>,
     running |-> << <<"running">>, <<"running">>, <<"jogging">>, <<"sprint">>, <<"active">> >>,
     walking |-> << <<"walking">>, <<"walk">>, <<"stroll">>, <<"hiking">> >>,
     happy |-> << <<"happy">>, <<"joyful">>, <<"smile">>, <<"joy">>, <<"cheerful">> >>]

\* QUERY_EXPANSIONS_LOWER.get(word, [word])
ExpansionCandidates(word) ==
    IF word \in DOMAIN QUERY_EXPANSIONS_LOWER THEN QUERY_EXPANSIONS_LOWER[word] ELSE << <<word>> >>

RECURSIVE Flatten(_)
Flatten(ss) == IF ss = <<>> THEN <<>> ELSE Head(ss) \o Flatten(Tail(ss))

\* ordered / seen: keep the first occurrence of every term
RECURSIVE Dedup(_, _)
Dedup(s, seen) ==
    IF s = <<>> THEN <<>>
    ELSE IF Head(s) = <<>> \/ Head(s) \in seen THEN Dedup(Tail(s), seen)
    ELSE <<Head(s)>> \o Dedup(Tail(s), seen \cup {Head(s)})

expand_query_multi_word(query) ==
    LET words == LowerAll(query)
    IN Dedup(Flatten([i \in 1..Len(words) |-> ExpansionCandidates(words[i])]), {})

\* A plausible slip: the verbatim query is not filtered out of the expansion.
OrderedTerms_unfiltered(query) ==
    <<LowerAll(query)>> \o expand_query_multi_word(query)

\* normal_search, step 1
OrderedTerms(query) ==
    LET normalized_query == LowerAll(query)
        expanded_terms == expand_query_multi_word(query)
    IN <<normalized_query>> \o SelectSeq(expanded_terms, LAMBDA t : t # normalized_query)


----------------------------------------------------------------------------
(* State *)

VARIABLES
    query,          \* parse/expand: the query, a sequence of words
    parsed,         \* parse/expand: result of parse_query(query), NotYet before the call
    ordered_terms,  \* parse/expand: normal_search's ordered_terms, <<>> before it is built
    match_q,        \* matcher: query attributes passed in
    match_m,        \* matcher: image metadata passed in
    match_w,        \* matcher: weights passed in
    match_level,    \* matcher: relaxation level last applied, -1 before the first call
    match_relaxed,  \* matcher: apply_relaxation(match_q, match_level)
    match_score,    \* matcher: compute_match_score(match_relaxed, match_m, match_w)
    match_prev,     \* matcher: the score computed at the previous level
    match_obj_score, \* matcher: obj_score of the last compute_match_score call (tenths)
    ds_pc,          \* deep_search: position ("idle", "start", "relaxing", "ranking", "done")
    ds_query,       \* deep_search: the query
    ds_top_k,       \* deep_search: top_k
    candidates,     \* deep_search: what the vector index returned
    query_attrs,    \* deep_search: parse_query(query)
    scored_candidates, \* deep_search: the scored candidate list
    level,          \* deep_search: relaxation level last applied (0 before the loop)
    relaxed_attrs,  \* deep_search: apply_relaxation(query_attrs, level)
    ds_result,      \* deep_search: the returned list
    ns_pc,          \* normal_search: position ("idle", "start", "searching", "done")
    ns_query,       \* normal_search: the query
    ns_top_k,       \* normal_search: top_k
    ns_terms,       \* normal_search: ordered_terms[:max_terms]
    ns_done,        \* normal_search: number of terms searched so far
    direct_best,    \* normal_search: dict id -> record, a list in insertion order
    expanded_best,  \* normal_search: dict id -> record, a list in insertion order
    ns_hits,        \* the index's answers so far: <<"direct" | "expanded", id, raw score>>
    ns_result,      \* normal_search: the returned list
    faces,          \* table faces: face id -> [image_id, cluster_id], cluster_id NoCluster when NULL
    face_clusters,  \* table face_clusters: cluster id -> [name, representative_face_id, face_count]
    ms_pc,          \* /search: position ("idle", "start", "diversity", "format", "done", "failed")
    ms_query,       \* /search: request.query, a sequence of characters
    ms_top_k,       \* /search: request.top_k
    ms_person,      \* /search: id of person_match, NoCluster when there is none
    ms_encoded,     \* /search: number of encode_text calls made
    ms_index_queries, \* /search: number of vector-index queries made
    reranked_results, \* /search: the score-sorted candidate list
    ms_similar,     \* /search: the pairs of images whose embeddings have dot product > 0.95
    ms_unavailable, \* /search: images with no cached embedding and no file
    ms_unloadable,  \* /search: images whose file Image.open cannot load
    ms_cache,       \* Redis: image id -> state of the entry emb:<id> ("absent", "valid", "corrupt")
    ms_redis_up,    \* Redis: whether the server answers
    ms_error,       \* /search: the exception the handler turned into HTTP 500, "" when none
    ms_pos,         \* /search: number of candidates the diversity loop has examined
    diverse_results, \* /search: the accepted candidates
    ms_results,     \* /search: the returned results
    uuids_made,     \* people: number of cluster ids uuid4 has produced
    faces_made,     \* people: number of face ids uuid4 has produced
    people_op,      \* people: the last operation that returned, with its arguments and outcome
    loop_running,   \* people: the /cluster-faces request whose handler the event loop runs, 0 when none
    cf_pc,          \* people: position of each /cluster-faces request
    cf_rows,        \* people: the face ids each /cluster-faces request selected
    sv_pc,          \* search routes: position of each request ("idle", "queued", "encode", "index", "done")
    sv_mode,        \* search routes: "normal" or "deep" for each request
    sv_left,        \* search routes: terms each request has still to encode and look up
    sv_loop,        \* search routes: the request whose coroutine the event loop is running, 0 when none
    iso_worlds,     \* isolation: two states of the vector index, collection name -> (point id -> embedding)
    iso_user,       \* isolation: the user whose searches are compared
    iso_request,    \* isolation: the last search made (mode, query, top_k)
    iso_result,     \* isolation: what that search returned in either state
    bm_documents,   \* BM25Matcher.documents
    bm_doc_lengths, \* BM25Matcher.doc_lengths
    bm_avg_doc_length, \* BM25Matcher.avg_doc_length, a fraction
    bm_doc_freqs,   \* BM25Matcher.doc_freqs: token -> number of documents holding it
    bm_idf,         \* BM25Matcher.idf: token -> idf in ten-thousandths
    bm_doc_count,   \* BM25Matcher.doc_count
    bm_op,          \* BM25Matcher: the last call, with its arguments and what it returned
    pi_pc,          \* processor: position of each image's process_image_task
    pi_status,      \* processor: images.processing_status of each image, "absent" when the row is gone
    pi_index,       \* processor: images whose embedding the vector index holds
    pi_events,      \* processor: the status events published, in order
    pi_log,         \* processor: what each task has done so far, in order
    eb_subscribers, \* EventBus._subscribers: user id -> set of queues
    eb_owner,       \* SSE: the user each queue was subscribed for, "" before it exists
    eb_state,       \* SSE: "unused", "subscribed" or "unsubscribed" for each queue
    eb_put,         \* SSE: the events put on each queue, in order
    eb_got,         \* SSE: number of events event_generator has taken from each queue
    eb_published    \* EventBus: the publish calls made, in order

vars_query == <<query, parsed, ordered_terms>>

vars_match ==
    <<match_q, match_m, match_w, match_level, match_relaxed, match_score, match_prev,
      match_obj_score>>

vars_deep ==
    <<ds_pc, ds_query, ds_top_k, candidates, query_attrs, scored_candidates, level,
      relaxed_attrs, ds_result>>

vars_normal ==
    <<ns_pc, ns_query, ns_top_k, ns_terms, ns_done, direct_best, expanded_best, ns_hits,
      ns_result>>

vars_store == <<faces, face_clusters>>

vars_msearch ==
    <<ms_pc, ms_query, ms_top_k, ms_person, ms_encoded, ms_index_queries, reranked_results,
      ms_similar, ms_unavailable, ms_pos, diverse_results, ms_results,
      ms_unloadable, ms_cache, ms_redis_up, ms_error>>

vars_people == <<uuids_made, faces_made, people_op, loop_running, cf_pc, cf_rows>>

vars_app == <<vars_store, vars_msearch, vars_people>>

vars_serve == <<sv_pc, sv_mode, sv_left, sv_loop>>

vars_iso == <<iso_worlds, iso_user, iso_request, iso_result>>

vars_bm ==
    <<bm_documents, bm_doc_lengths, bm_avg_doc_length, bm_doc_freqs, bm_idf, bm_doc_count,
      bm_op>>

vars_proc == <<pi_pc, pi_status, pi_index, pi_events, pi_log>>

vars_bus == <<eb_subscribers, eb_owner, eb_state, eb_put, eb_got, eb_published>>

vars_rest == <<vars_serve, vars_iso, vars_bm, vars_proc, vars_bus>>

vars_not_serve == <<vars_iso, vars_bm, vars_proc, vars_bus>>

vars_not_iso == <<vars_serve, vars_bm, vars_proc, vars_bus>>

vars_not_bm == <<vars_serve, vars_iso, vars_proc, vars_bus>>

vars_not_proc == <<vars_serve, vars_iso, vars_bm, vars_bus>>

vars_not_bus == <<vars_serve, vars_iso, vars_bm, vars_proc>>

vars_old == <<vars_query, vars_match, vars_deep, vars_normal, vars_app>>

vars == <<vars_old, vars_rest>>

NotYet == [called |-> FALSE]

IdleQuery == query = <<>> /\ parsed = NotYet /\ ordered_terms = <<>>

IdleMatch ==
    /\ match_q = NotYet /\ match_m = NotYet /\ match_w = NotYet
    /\ match_level = -1 /\ match_relaxed = NotYet
    /\ match_score = FZero /\ match_prev = FZero /\ match_obj_score = 0

IdleDeep ==
    /\ ds_pc = "idle" /\ ds_query = <<>> /\ ds_top_k = 0 /\ candidates = <<>>
    /\ query_attrs = NotYet /\ scored_candidates = <<>> /\ level = 0
    /\ relaxed_attrs = NotYet /\ ds_result = <<>>

IdleNormal ==
    /\ ns_pc = "idle" /\ ns_query = <<>> /\ ns_top_k = 0 /\ ns_terms = <<>>
    /\ ns_done = 0 /\ direct_best = <<>> /\ expanded_best = <<>>
    /\ ns_hits = {} /\ ns_result = <<>>

NoCluster == 0

IdleStore == faces = <<>> /\ face_clusters = <<>>

IdleMainSearch ==
    /\ ms_pc = "idle" /\ ms_query = <<>> /\ ms_top_k = 0 /\ ms_person = NoCluster
    /\ ms_encoded = 0 /\ ms_index_queries = 0 /\ reranked_results = <<>>
    /\ ms_similar = {} /\ ms_unavailable = {} /\ ms_pos = 0
    /\ diverse_results = <<>> /\ ms_results = <<>>
    /\ ms_unloadable = {} /\ ms_cache = <<>> /\ ms_redis_up = TRUE /\ ms_error = ""

IdlePeople ==
    /\ uuids_made = 0 /\ faces_made = 0 /\ people_op = NotYet /\ loop_running = 0
    /\ cf_pc = <<>> /\ cf_rows = <<>>

IdleApp == IdleStore /\ IdleMainSearch /\ IdlePeople

IdleServe == sv_pc = <<>> /\ sv_mode = <<>> /\ sv_left = <<>> /\ sv_loop = 0

IdleIso ==
    /\ iso_worlds = <<>> /\ iso_user = <<>> /\ iso_request = NotYet /\ iso_result = <<>>

\* BM25Matcher.__init__
IdleBm ==
    /\ bm_documents = <<>> /\ bm_doc_lengths = <<>> /\ bm_avg_doc_length = FZero
    /\ bm_doc_freqs = <<>> /\ bm_idf = <<>> /\ bm_doc_count = 0 /\ bm_op = NotYet

IdleProc ==
    /\ pi_pc = <<>> /\ pi_status = <<>> /\ pi_index = {}
    /\ pi_events = <<>> /\ pi_log = <<>>

IdleBus ==
    /\ eb_subscribers = <<>> /\ eb_owner = <<>> /\ eb_state = <<>>
    /\ eb_put = <<>> /\ eb_got = <<>> /\ eb_published = <<>>

IdleRest == IdleServe /\ IdleIso /\ IdleBm /\ IdleProc /\ IdleBus

IdleNotServe == IdleIso /\ IdleBm /\ IdleProc /\ IdleBus

IdleNotIso == IdleServe /\ IdleBm /\ IdleProc /\ IdleBus

IdleNotBm == IdleServe /\ IdleIso /\ IdleProc /\ IdleBus

IdleNotProc == IdleServe /\ IdleIso /\ IdleBm /\ IdleBus

IdleNotBus == IdleServe /\ IdleIso /\ IdleBm /\ IdleProc

IdleOld == IdleQuery /\ IdleMatch /\ IdleDeep /\ IdleNormal /\ IdleApp


----------------------------------------------------------------------------
(* Query understanding: parse_query and the term list of normal_search *)

InitQuery ==
    /\ query \in Queries
    /\ parsed = NotYet
    /\ ordered_terms = <<>>
    /\ IdleMatch
    /\ IdleDeep
    /\ IdleNormal
    /\ IdleApp /\ IdleRest

ParseQuery ==
    /\ parsed = NotYet
    /\ parsed' = parse_query(query)
    /\ UNCHANGED <<vars_rest, query, ordered_terms, vars_match, vars_deep, vars_normal, vars_app>>

BuildTerms ==
    /\ ordered_terms = <<>>
    /\ ordered_terms' = OrderedTerms(query)
    /\ UNCHANGED <<vars_rest, query, parsed, vars_match, vars_deep, vars_normal, vars_app>>

NextQuery == ParseQuery \/ BuildTerms

SpecQuery == InitQuery /\ [][NextQuery]_vars

----------------------------------------------------------------------------
(* Metadata matcher: apply_relaxation followed by compute_match_score,     *)
(* level by level                                                          *)

MaxObjs == 2

QueryObjectWords == {"man", "tree"}

QueryAttrs ==
    [objects : UNION {[1..n -> QueryObjectWords] : n \in 0..MaxObjs},
     action : {None, "walking"},
     time : {None, "night"},
     scene : {None, "street"},
     weather : {None, "", "sunny"},
     emotion : {None, "happy"}]

ImageMetadata ==
    [objects : {<<>>, <<"person">>, <<"dog", "tree">>},
     action : {None, "walking", "strolling"},
     time : {None, "night", "dark"},
     scene : {"Street", "beach"},
     weather : {"sunny"},
     emotion : {"sad"}]

InitMatch ==
    /\ match_q \in QueryAttrs
    /\ match_m \in ImageMetadata
    /\ match_w \in {DefaultWeights, get_query_importance}
    /\ match_level = -1
    /\ match_relaxed = NotYet
    /\ match_score = FZero
    /\ match_prev = FZero
    /\ match_obj_score = 0
    /\ IdleQuery
    /\ IdleDeep
    /\ IdleNormal
    /\ IdleApp /\ IdleRest

\* apply_relaxation(q, level + 1) and compute_match_score on its result
MatchNextLevel ==
    /\ match_level < 3
    /\ match_level' = match_level + 1
    /\ match_relaxed' = apply_relaxation(match_q, match_level + 1)
    /\ match_score' = compute_match_score(match_relaxed', match_m, match_w)
    /\ match_prev' = match_score
    /\ match_obj_score' = match_objects(match_relaxed'.objects, match_m.objects)
    /\ UNCHANGED <<vars_rest, match_q, match_m, match_w, vars_query, vars_deep, vars_normal, vars_app>>

NextMatch == MatchNextLevel

SpecMatch == InitMatch /\ [][NextMatch]_vars


----------------------------------------------------------------------------
(* Properties of the metadata matcher *)

AttrNames == {"objects", "action", "time", "scene", "weather", "emotion"}

\* The attributes a query record carries: a non-empty object list, a
\* non-empty non-null string.
PresentAttrs(q) ==
    {a \in AttrNames : IF a = "objects" THEN q.objects # <<>> ELSE Truthy(q[a])}

SubScoreOf(a, q, m) ==
    CASE a = "objects" -> match_objects(q.objects, m.objects)
      [] a = "action" -> get_action_similarity(q.action, m.action)
      [] a = "time" -> match_time(q.time, m.time)
      [] OTHER -> match_exact_or_zero(q[a], m[a])

\* Sum of the function f over the set S.
RECURSIVE SetSum(_, _)
SetSum(S, f) ==
    IF S = {} THEN 0 ELSE LET x == CHOOSE y \in S : TRUE IN f[x] + SetSum(S \ {x}, f)

\* C1: at every level 0..3 the record returned by apply_relaxation carries
\* exactly the action and the time of the record passed in.
C1_ActionTimeKept ==
    match_level >= 0 =>
        /\ match_relaxed.action = match_q.action
        /\ match_relaxed.time = match_q.time

C1_Witness ==
    /\ match_level = 3
    /\ match_q.action = "walking" /\ match_q.time = "night"
    /\ match_q.scene = "street" /\ match_relaxed.scene = None
    /\ match_q.emotion = "happy" /\ match_relaxed.emotion = None

\* C3 as stated: the score computed at level L+1 is never below the score
\* computed at level L.
C3_ScoreNeverDecreases ==
    match_level >= 1 => FGeq(match_score, match_prev)

\* The attributes level lvl clears that levels below it keep.
ClearedAt(lvl) ==
    CASE lvl = 2 -> {"scene"}
      [] lvl = 3 -> {"weather", "emotion"}
      [] OTHER -> {}

\* C3 amended: the score computed at level L+1 is never below the score
\* computed at level L provided no attribute that level L+1 clears is present
\* in the query with a positive sub-score against the image.
C3_ScoreKeptUnlessMatchDropped ==
    (/\ match_level >= 1
     /\ \A a \in ClearedAt(match_level) \cap PresentAttrs(match_q) :
            SubScoreOf(a, match_q, match_m) = 0)
    => FGeq(match_score, match_prev)

\* Level 2 dropped an unmatched scene and the score rose.
C3_Witness ==
    /\ match_level = 2
    /\ match_q.scene = "street" /\ match_m.scene = "beach"
    /\ match_q.action = "walking" /\ match_m.action = "strolling"
    /\ FGt(match_score, match_prev)

\* C6: the score is the weighted mean of the sub-scores over exactly the
\* attributes present in the query record scored, 0 when none is present,
\* and lies in [0,1].
C6_WeightedMeanOverPresent ==
    match_level >= 0 =>
        LET P == PresentAttrs(match_relaxed)
            W == [a \in P |-> match_w[a]]
            WS == [a \in P |-> match_w[a] * SubScoreOf(a, match_relaxed, match_m)]
        IN /\ P = {} => match_score = FZero
           /\ P # {} => match_score.num * (10 * SetSum(P, W)) = SetSum(P, WS) * match_score.den
           /\ 0 <= match_score.num /\ match_score.num <= match_score.den
           /\ match_score.den > 0

\* Two of six attributes present, one matching: the mean is taken over two.
C6_Witness ==
    /\ match_level = 0
    /\ PresentAttrs(match_relaxed) = {"action", "scene"}
    /\ match_m.action = "strolling" /\ match_m.scene = "Street"
    /\ match_w = DefaultWeights
    /\ FEq(match_score, Frac(34, 40))

\* hierarchy(obj)[1] of the specification: the category obj is a member of.
CategoryOf(obj) ==
    LET h == get_object_hierarchy(obj) IN IF Len(h) > 1 THEN h[2] ELSE None

TopLevel(obj) == LET h == get_object_hierarchy(obj) IN h[Len(h)]

\* The pair score C7 states, on the query's and the image's own object strings.
C7_PairScore(q_obj, i_obj) ==
    IF q_obj = i_obj THEN 10
    ELSE IF CategoryOf(q_obj) = i_obj THEN 8
    ELSE IF CategoryOf(i_obj) = q_obj THEN 9
    ELSE IF TopLevel(q_obj) = TopLevel(i_obj) THEN 6
    ELSE 0

\* C7 as stated: the object sub-score is the maximum of the stated pair score
\* over all query-object x image-object pairs (0.8 for "man" against "person").
C7_ObjectScoreAsStated ==
    (match_level = 0 /\ match_q.objects # <<>> /\ match_m.objects # <<>>) =>
        match_obj_score =
            SetMax({C7_PairScore(match_q.objects[i], match_m.objects[j]) :
                       i \in 1..Len(match_q.objects), j \in 1..Len(match_m.objects)})


----------------------------------------------------------------------------
(* Properties of query understanding *)

NoDuplicates(s) == \A i, j \in 1..Len(s) : i # j => s[i] # s[j]

\* The lower-cased words of the model that are a key or a member of some
\* group of QUERY_EXPANSIONS.
GroupWords ==
    {"dog", "running", "walking", "happy", "unhappy", "man", "night", "evening", "street"}

QueryTokens == LowerAll(query)

\* C9 as stated: the term list starts with the verbatim query, holds no term
\* twice, and is the verbatim query alone when no word of the query belongs
\* to a synonym group.
C9_TermsAsStated ==
    ordered_terms # <<>> =>
        /\ ordered_terms[1] = QueryTokens
        /\ NoDuplicates(ordered_terms)
        /\ (SeqRange(QueryTokens) \cap GroupWords = {}) => ordered_terms = <<QueryTokens>>

\* C9 amended: the term list starts with the verbatim query and holds no term
\* twice; when no word of the query is the key of a synonym group, the list
\* is the verbatim query followed by the distinct words of the query (those
\* that differ from the verbatim query) in order of first occurrence, hence
\* the verbatim query alone only for a query of at most one word.
C9_TermsAmended ==
    ordered_terms # <<>> =>
        LET rest == Tail(ordered_terms)
            FirstAt(w) == CHOOSE i \in 1..Len(QueryTokens) :
                              QueryTokens[i] = w /\ \A j \in 1..(i - 1) : QueryTokens[j] # w
        IN /\ ordered_terms[1] = QueryTokens
           /\ NoDuplicates(ordered_terms)
           /\ (SeqRange(QueryTokens) \cap DOMAIN QUERY_EXPANSIONS_LOWER = {}) =>
                 /\ SeqRange(rest) = {<<w>> : w \in SeqRange(QueryTokens)} \ {QueryTokens}
                 /\ \A i, j \in 1..Len(rest) :
                        i < j => FirstAt(rest[i][1]) < FirstAt(rest[j][1])
                 /\ (Len(QueryTokens) <= 1 => ordered_terms = <<QueryTokens>>)

\* A one-word query that is the key of its group: the key is listed once.
C9_Witness ==
    /\ query = <<"Dog">>
    /\ Len(ordered_terms) = 6
    /\ ordered_terms[1] = <<"dog">> /\ ordered_terms[2] = <<"puppy">>

\* C10 as stated: action, time and scene are each the first token of the
\* query that lies in the class's vocabulary; a word ending in "ing" outside
\* the action vocabulary is the action only when no vocabulary token matched;
\* a class with no token and no fixed phrase in the query stays unset.
C10_FirstTokenWins ==
    parsed # NotYet =>
        LET tokens == QueryTokens
            ing == FirstIn(tokens, EndingWith("ing") \ all_actions)
            time_phrase ==
                \/ PhraseIn(<<"at", "night">>, tokens) \/ PhraseIn(<<"during", "night">>, tokens)
                \/ PhraseIn(<<"at", "day">>, tokens) \/ PhraseIn(<<"during", "day">>, tokens)
                \/ PhraseIn(<<"daytime">>, tokens)
            scene_phrase ==
                \/ PhraseIn(<<"on", "the", "street">>, tokens) \/ PhraseIn(<<"on", "street">>, tokens)
                \/ PhraseIn(<<"at", "the", "beach">>, tokens) \/ PhraseIn(<<"on", "beach">>, tokens)
                \/ PhraseIn(<<"in", "the", "park">>, tokens) \/ PhraseIn(<<"at", "park">>, tokens)
        IN /\ IF FirstIn(tokens, all_actions) # None
                THEN parsed.action = FirstIn(tokens, all_actions)
                ELSE parsed.action = ing
           /\ FirstIn(tokens, all_times) # None => parsed.time = FirstIn(tokens, all_times)
           /\ (FirstIn(tokens, all_times) = None /\ ~time_phrase) => parsed.time = None
           /\ FirstIn(tokens, all_scenes) # None => parsed.scene = FirstIn(tokens, all_scenes)
           /\ (FirstIn(tokens, all_scenes) = None /\ ~scene_phrase) => parsed.scene = None


----------------------------------------------------------------------------
(* services/embeddings.py: score calibration *)

\* Raw cosine similarities the vector index reports, in hundredths.
RawScores == {-2, 0, 2, 10}

\* sigmoid(raw_similarity * 25.0) in hundredths, rounded, at the raw
\* similarities of the model.
calibrate_siglip_score(raw) ==
    CASE raw = -100 -> 0
      [] raw = -2 -> 38
      [] raw = 0 -> 50
      [] raw = 2 -> 62
      [] raw = 10 -> 92
      [] raw = 100 -> 100

----------------------------------------------------------------------------
(* The vector index (services/qdrant.py: search_images) *)

NumImages == 3

\* payload of the indexed images
IndexedImages ==
    << [objects |-> <<"person">>, action |-> "running", time |-> "night",
        scene |-> "street", weather |-> None, emotion |-> None],
       [objects |-> <<"dog">>, action |-> "walking", time |-> "day",
        scene |-> "beach", weather |-> "sunny", emotion |-> "happy"],
       [objects |-> <<"MAN ">>, action |-> "strolling", time |-> "dark",
        scene |-> "Street", weather |-> None, emotion |-> None],
       [objects |-> <<>>, action |-> None, time |-> None,
        scene |-> None, weather |-> None, emotion |-> None] >>

\* What client.search can return for a limit over the points ids: at most
\* limit points, every point once, by non-increasing score.
IndexResults(ids, scores, limit) ==
    {r \in UNION {[1..n -> [id : ids, score : scores]] : n \in 0..Min(limit, Cardinality(ids))} :
        \A i, j \in 1..Len(r) : i < j => r[i].id # r[j].id /\ r[i].score >= r[j].score}

----------------------------------------------------------------------------
(* services/search.py: deep_search *)

MaxTopK == 2

\* size of the candidate pool deep_search asks the index for
DEEP_SEARCH_CANDIDATE_K == 50

DeepQueries ==
    { <<"man", "walking", "street">>,
      <<"man", "walking", "at", "night">>,
      <<"happy", "dog">>,
      <<"young", "man", "running">>,
      <<"dog", "on", "street">>,
      <<"road">>,
      <<"at">> }

\* (0.6 * embedding_score) + (0.4 * meta_score), in thousandths
Combine(embedding_score, meta_score) ==
    Frac(6 * embedding_score * meta_score.den + 400 * meta_score.num, meta_score.den)

\* the 0.5 threshold, in thousandths
Half == Frac(500, 1)

\* [c for c in scored_candidates if c["combined_score"] > 0.5]
good_results(scored) == SelectSeq(scored, LAMBDA c : FGt(c.combined_score, Half))

\* A plausible slip: the loop never looks at the number of good results.
NeedsRelaxation_always(scored, top_k) == TRUE

\* len(good_results) < top_k (line 152; line 165 is its negation)
NeedsRelaxation(scored, top_k) == Len(good_results(scored)) < top_k

\* Step 3: one scored candidate
ScoreCandidate(candidate, attrs, weights) ==
    LET metadata == IndexedImages[candidate.id]
        meta_score == compute_match_score(attrs, metadata, weights)
        embedding_score == calibrate_siglip_score(candidate.score)
    IN [id |-> candidate.id,
        metadata |-> metadata,
        embedding_score |-> embedding_score,
        meta_score |-> meta_score,
        combined_score |-> Combine(embedding_score, meta_score)]

\* A plausible slip: the recomputed score is stored whenever it differs.
RelaxCandidate_overwriting(candidate, relaxed, weights) ==
    LET new_meta_score == compute_match_score(relaxed, candidate.metadata, weights)
    IN IF ~FEq(new_meta_score, candidate.meta_score)
         THEN [candidate EXCEPT !.meta_score = new_meta_score,
                                !.combined_score = Combine(candidate.embedding_score, new_meta_score)]
         ELSE candidate

\* The body of the inner loop of step 4
RelaxCandidate(candidate, relaxed, weights) ==
    LET new_meta_score == compute_match_score(relaxed, candidate.metadata, weights)
    IN IF FGt(new_meta_score, candidate.meta_score)
         THEN [candidate EXCEPT !.meta_score = new_meta_score,
                                !.combined_score = Combine(candidate.embedding_score, new_meta_score)]
         ELSE candidate

\* list.sort(key=combined_score, reverse=True): stable, descending
RECURSIVE InsertDesc(_, _)
InsertDesc(x, s) ==
    IF s = <<>> THEN <<x>>
    ELSE IF FGt(x.combined_score, Head(s).combined_score) THEN <<x>> \o s
    ELSE <<Head(s)>> \o InsertDesc(x, Tail(s))

RECURSIVE SortDesc(_)
SortDesc(s) ==
    IF s = <<>> THEN <<>> ELSE InsertDesc(s[Len(s)], SortDesc(SubSeq(s, 1, Len(s) - 1)))

\* A plausible slip: the 0.5 threshold also filters the final list.
TopResults_good_only(scored, top_k) ==
    LET sorted == SortDesc(good_results(scored)) IN SubSeq(sorted, 1, Min(top_k, Len(sorted)))

\* Step 5: sort by combined score and take top_k
TopResults(scored, top_k) ==
    LET sorted == SortDesc(scored) IN SubSeq(sorted, 1, Min(top_k, Len(sorted)))

\* the "id" and "score" of the formatted results
FormatDeep(top_results) ==
    [i \in 1..Len(top_results) |->
        [id |-> top_results[i].id, score |-> top_results[i].combined_score]]

InitDeep ==
    /\ ds_pc = "start"
    /\ ds_query \in DeepQueries
    /\ ds_top_k \in 1..MaxTopK
    /\ candidates = <<>>
    /\ query_attrs = NotYet
    /\ scored_candidates = <<>>
    /\ level = 0
    /\ relaxed_attrs = NotYet
    /\ ds_result = <<>>
    /\ IdleQuery
    /\ IdleMatch
    /\ IdleNormal
    /\ IdleApp /\ IdleRest

\* Steps 1-3 and the test of line 152: recall, parse, score at level 0.
DeepRecall ==
    /\ ds_pc = "start"
    /\ \E found \in IndexResults(1..NumImages, RawScores, DEEP_SEARCH_CANDIDATE_K) :
          /\ candidates' = found
          /\ IF found = <<>>
               THEN /\ ds_pc' = "done"
                    /\ UNCHANGED <<query_attrs, scored_candidates>>
               ELSE /\ query_attrs' = parse_query(ds_query)
                    /\ scored_candidates' =
                          [i \in 1..Len(found) |->
                              ScoreCandidate(found[i], query_attrs', get_query_importance)]
                    /\ ds_pc' = IF NeedsRelaxation(scored_candidates', ds_top_k)
                                  THEN "relaxing" ELSE "ranking"
    /\ UNCHANGED <<vars_rest, ds_query, ds_top_k, level, relaxed_attrs, ds_result, vars_query, vars_match,
                   vars_normal, vars_app>>

\* One iteration of "for level in range(1, 4)".
DeepRelax ==
    /\ ds_pc = "relaxing"
    /\ level' = level + 1
    /\ relaxed_attrs' = apply_relaxation(query_attrs, level')
    /\ scored_candidates' =
          [i \in 1..Len(scored_candidates) |->
              RelaxCandidate(scored_candidates[i], relaxed_attrs', get_query_importance)]
    /\ ds_pc' = IF level' < 3 /\ NeedsRelaxation(scored_candidates', ds_top_k)
                  THEN "relaxing" ELSE "ranking"
    /\ UNCHANGED <<vars_rest, ds_query, ds_top_k, candidates, query_attrs, ds_result, vars_query, vars_match,
                   vars_normal, vars_app>>

\* Steps 5-6: sort in place, truncate, format, return.
DeepRank ==
    /\ ds_pc = "ranking"
    /\ scored_candidates' = SortDesc(scored_candidates)
    /\ ds_result' = FormatDeep(TopResults(scored_candidates, ds_top_k))
    /\ ds_pc' = "done"
    /\ UNCHANGED <<vars_rest, ds_query, ds_top_k, candidates, query_attrs, level, relaxed_attrs,
                   vars_query, vars_match, vars_normal, vars_app>>

NextDeep == DeepRecall \/ DeepRelax \/ DeepRank

SpecDeep == InitDeep /\ [][NextDeep]_vars


----------------------------------------------------------------------------
(* Properties of deep_search *)

\* C2: across a relaxation level no candidate's stored meta_score or
\* combined_score decreases; the stored meta_score is replaced exactly when
\* the recomputed one is strictly larger, and then combined_score is
\* 0.6 * embedding_score + 0.4 * meta_score.
C2_ScoresOnlyIncrease ==
    [][ds_pc = "relaxing" =>
          /\ Len(scored_candidates') = Len(scored_candidates)
          /\ \A i \in 1..Len(scored_candidates) :
                LET old == scored_candidates[i]
                    new == scored_candidates'[i]
                    recomputed == compute_match_score(
                                      apply_relaxation(query_attrs, level + 1),
                                      old.metadata, get_query_importance)
                IN /\ new.id = old.id
                   /\ new.embedding_score = old.embedding_score
                   /\ FGeq(new.meta_score, old.meta_score)
                   /\ FGeq(new.combined_score, old.combined_score)
                   /\ IF FGt(recomputed, old.meta_score)
                        THEN /\ new.meta_score = recomputed
                             /\ new.combined_score.num * recomputed.den
                                  = (6 * old.embedding_score * recomputed.den
                                       + 400 * recomputed.num) * new.combined_score.den
                        ELSE /\ new.meta_score = old.meta_score
                             /\ new.combined_score = old.combined_score]_vars

\* After level 2 one candidate holds a score above its level-0 score while
\* another kept a stored score above the one recomputed for it.
C2_Witness ==
    /\ level = 2
    /\ \E i, j \in 1..Len(scored_candidates) :
          /\ FGt(scored_candidates[i].meta_score,
                 compute_match_score(query_attrs, scored_candidates[i].metadata,
                                     get_query_importance))
          /\ FGt(scored_candidates[j].meta_score,
                 compute_match_score(relaxed_attrs, scored_candidates[j].metadata,
                                     get_query_importance))

\* Number of candidates whose combined_score exceeds 0.5.
GoodCount(scored) == Cardinality({i \in 1..Len(scored) : FGt(scored[i].combined_score, Half)})

\* C4: a relaxation level is applied only while fewer than top_k candidates
\* have combined_score > 0.5; the levels applied are 1, 2, 3 in this order,
\* each computed from the attributes parsed from the query.
C4_RelaxationGated ==
    [][level' # level =>
          /\ level' = level + 1
          /\ level' \in 1..3
          /\ GoodCount(scored_candidates) < ds_top_k
          /\ query_attrs' = query_attrs
          /\ query_attrs = parse_query(ds_query)
          /\ relaxed_attrs' = apply_relaxation(parse_query(ds_query), level')]_vars

\* The loop stopped after level 2, which brought top_k = 2 candidates above 0.5.
C4_Witness ==
    /\ ds_pc = "ranking" /\ level = 2 /\ ds_top_k = 2
    /\ GoodCount(scored_candidates) = 2

\* C5: the result has min(top_k, number of recalled candidates) entries by
\* non-increasing combined_score, they are the best-scored candidates
\* whatever their score is, and every score lies in [0,1].
C5_ResultIsTopK ==
    ds_pc = "done" =>
        /\ Len(ds_result) = Min(ds_top_k, Len(candidates))
        /\ \A i, j \in 1..Len(ds_result) :
              i < j => /\ FGeq(ds_result[i].score, ds_result[j].score)
                       /\ ds_result[i].id # ds_result[j].id
        /\ \A i \in 1..Len(ds_result) :
              /\ ds_result[i].score.num >= 0
              /\ ds_result[i].score.num <= 1000 * ds_result[i].score.den
              /\ \E k \in 1..Len(scored_candidates) :
                    /\ scored_candidates[k].id = ds_result[i].id
                    /\ scored_candidates[k].combined_score = ds_result[i].score
              /\ \A k \in 1..Len(scored_candidates) :
                    scored_candidates[k].id \notin {ds_result[j].id : j \in 1..Len(ds_result)}
                        => FGeq(ds_result[i].score, scored_candidates[k].combined_score)
        /\ {scored_candidates[k].id : k \in 1..Len(scored_candidates)}
              = {candidates[k].id : k \in 1..Len(candidates)}

\* Three candidates recalled, two returned, one of them not above 0.5.
C5_Witness ==
    /\ ds_pc = "done" /\ Len(candidates) = 3 /\ ds_top_k = 2 /\ Len(ds_result) = 2
    /\ ~FGt(ds_result[2].score, Half)
    /\ level = 3


----------------------------------------------------------------------------
(* services/search.py: normal_search *)

\* Ids of the images the index holds for the user of normal_search, and the
\* raw similarities it reports for them (hundredths).
NormalImageIds == {1, 2}

NormalRawScores == {0, 10}

NormalQueries ==
    { <<"road">>, <<"Dog">>, <<"at", "road">>, <<"road", "dog">>, <<"on", "at", "road">> }

\* expansion_penalty = 0.85, in hundredths
expansion_penalty == 85

\* A dict id -> record is the list of its records in insertion order.
DictHas(d, id) == \E i \in 1..Len(d) : d[i].id = id

DictGet(d, id) == d[CHOOSE i \in 1..Len(d) : d[i].id = id]

\* d[record.id] = record: an existing key keeps its position
DictPut(d, record) ==
    IF \E i \in 1..Len(d) : d[i].id = record.id
      THEN [i \in 1..Len(d) |-> IF d[i].id = record.id THEN record ELSE d[i]]
      ELSE Append(d, record)

\* prev = best.get(image_id); if prev is None or record.score > prev.score: ...
KeepBest(best, record) ==
    IF ~DictHas(best, record.id) \/ record.score > DictGet(best, record.id).score
      THEN DictPut(best, record) ELSE best

\* The record built for one result of the search for term; scores are
\* ten-thousandths.
HitRecord(r, term, is_direct) ==
    LET calibrated_score == calibrate_siglip_score(r.score)
    IN [id |-> r.id,
        score |-> IF is_direct THEN calibrated_score * 100
                  ELSE calibrated_score * expansion_penalty,
        raw_score |-> r.score,
        matched_term |-> term]

\* "for r in results" for one term
RECURSIVE AbsorbResults(_, _, _, _)
AbsorbResults(best, results, term, is_direct) ==
    IF results = <<>> THEN best
    ELSE AbsorbResults(KeepBest(best, HitRecord(Head(results), term, is_direct)),
                       Tail(results), term, is_direct)

RECURSIVE DictUpdate(_, _)
DictUpdate(d, other) ==
    IF other = <<>> THEN d ELSE DictUpdate(DictPut(d, Head(other)), Tail(other))

\* A plausible slip: the merge starts from the direct map, so a synonym hit
\* replaces the direct one.
MergeBest_expanded_last(direct, expanded) == DictUpdate(direct, expanded)

\* all_results = dict(expanded_best); all_results.update(direct_best)
MergeBest(direct, expanded) == DictUpdate(expanded, direct)

\* sorted(..., key=score, reverse=True): stable, descending
RECURSIVE InsertByScore(_, _)
InsertByScore(x, s) ==
    IF s = <<>> THEN <<x>>
    ELSE IF x.score > Head(s).score THEN <<x>> \o s
    ELSE <<Head(s)>> \o InsertByScore(x, Tail(s))

RECURSIVE SortByScore(_)
SortByScore(s) ==
    IF s = <<>> THEN <<>> ELSE InsertByScore(s[Len(s)], SortByScore(SubSeq(s, 1, Len(s) - 1)))

\* Step 3: sorted_results[:top_k], formatted
NormalResults(all_results, top_k) ==
    LET sorted_results == SortByScore(all_results)
    IN [i \in 1..Min(top_k, Len(sorted_results)) |->
           [id |-> sorted_results[i].id,
            score |-> sorted_results[i].score,
            matched_term |-> sorted_results[i].matched_term]]

\* max_terms of step 2
MaxTerms(normalized_query, terms) ==
    Min(IF Len(normalized_query) <= 2 THEN 6 ELSE 10, Len(terms))

InitNormal ==
    /\ ns_pc = "start"
    /\ ns_query \in NormalQueries
    /\ ns_top_k \in 1..MaxTopK
    /\ ns_terms = <<>>
    /\ ns_done = 0
    /\ direct_best = <<>>
    /\ expanded_best = <<>>
    /\ ns_hits = {}
    /\ ns_result = <<>>
    /\ IdleQuery
    /\ IdleMatch
    /\ IdleDeep
    /\ IdleApp /\ IdleRest

\* Step 1 and the bounds of step 2.
NormalStart ==
    /\ ns_pc = "start"
    /\ LET terms == OrderedTerms(ns_query)
       IN ns_terms' = SubSeq(terms, 1, MaxTerms(LowerAll(ns_query), terms))
    /\ ns_pc' = "searching"
    /\ UNCHANGED <<vars_rest, ns_query, ns_top_k, ns_done, direct_best, expanded_best, ns_hits, ns_result,
                   vars_query, vars_match, vars_deep, vars_app>>

\* One iteration of "for term in ordered_terms[:max_terms]".
NormalSearchTerm ==
    /\ ns_pc = "searching"
    /\ ns_done < Len(ns_terms)
    /\ LET term == ns_terms[ns_done + 1]
           is_direct == term = LowerAll(ns_query)
       IN \E results \in IndexResults(NormalImageIds, NormalRawScores, Min(ns_top_k, 10)) :
             /\ IF is_direct
                  THEN /\ direct_best' = AbsorbResults(direct_best, results, term, TRUE)
                       /\ UNCHANGED expanded_best
                  ELSE /\ expanded_best' = AbsorbResults(expanded_best, results, term, FALSE)
                       /\ UNCHANGED direct_best
             /\ ns_hits' = ns_hits \cup
                   {<<IF is_direct THEN "direct" ELSE "expanded", results[i].id, results[i].score>> :
                       i \in 1..Len(results)}
    /\ ns_done' = ns_done + 1
    /\ UNCHANGED <<vars_rest, ns_pc, ns_query, ns_top_k, ns_terms, ns_result,
                   vars_query, vars_match, vars_deep, vars_app>>

\* Merge, sort, truncate, return.
NormalFinish ==
    /\ ns_pc = "searching"
    /\ ns_done = Len(ns_terms)
    /\ ns_result' = NormalResults(MergeBest(direct_best, expanded_best), ns_top_k)
    /\ ns_pc' = "done"
    /\ UNCHANGED <<vars_rest, ns_query, ns_top_k, ns_terms, ns_done, direct_best, expanded_best, ns_hits,
                   vars_query, vars_match, vars_deep, vars_app>>

NextNormal == NormalStart \/ NormalSearchTerm \/ NormalFinish

SpecNormal == InitNormal /\ [][NextNormal]_vars

----------------------------------------------------------------------------
(* Properties of normal_search *)

BestRaw(kind, id) == SetMax({calibrate_siglip_score(h[3]) : h \in {x \in ns_hits : x[1] = kind /\ x[2] = id}})

WasHit(kind, id) == \E h \in ns_hits : h[1] = kind /\ h[2] = id

----------------------------------------------------------------------------
(* Properties of the parsed objects, weather and emotion *)

\* C11 as stated: the objects attribute holds exactly the object-vocabulary
\* words that occur in the query, in query order, none of them twice; weather
\* and emotion are set only to a word that is a word of the query.
C11_ObjectsOrderedSet ==
    parsed # NotYet =>
        LET tokens == QueryTokens
            objs == parsed.objects
            FirstPos(w) == CHOOSE i \in 1..Len(tokens) :
                               tokens[i] = w /\ \A j \in 1..(i - 1) : tokens[j] # w
        IN /\ NoDuplicates(objs)
           /\ SeqRange(objs) = SeqRange(tokens) \cap all_objects
           /\ \A i, j \in 1..Len(objs) :
                  (i < j /\ objs[i] # objs[j]) => FirstPos(objs[i]) < FirstPos(objs[j])
           /\ (parsed.weather # None => parsed.weather \in SeqRange(tokens))
           /\ (parsed.emotion # None => parsed.emotion \in SeqRange(tokens))

----------------------------------------------------------------------------
(* main.py: the tables faces and face_clusters *)

\* The row a face has in table faces.
FaceRow(image_id, cluster_id) == [image_id |-> image_id, cluster_id |-> cluster_id]

\* The row a cluster has in table face_clusters.
ClusterRow(name, representative_face_id, face_count) ==
    [name |-> name, representative_face_id |-> representative_face_id,
     face_count |-> face_count]

\* SELECT ... FROM faces WHERE cluster_id = c
FacesOf(c) == {f \in DOMAIN faces : faces[f].cluster_id = c}

\* f"Person {n}", as a sequence of characters
Digit(n) == CASE n = 1 -> "1" [] n = 2 -> "2" [] n = 3 -> "3" [] n = 4 -> "4" [] n = 5 -> "5"
              [] n = 6 -> "6" [] n = 7 -> "7" [] n = 8 -> "8" [] OTHER -> "9"

PersonName(n) == <<"P", "e", "r", "s", "o", "n", " ", Digit(n)>>

----------------------------------------------------------------------------
(* main.py: search_images, the /search endpoint *)

\* LOWER(...) of SQL, character by character
lower_char(c) ==
    CASE c = "A" -> "a"
      [] c = "N" -> "n"
      [] c = "P" -> "p"
      [] OTHER -> c

LowerChars(s) == [i \in 1..Len(s) |-> lower_char(s[i])]

\* string LIKE pattern: "%" stands for any run of characters, "_" for any one
RECURSIVE Like(_, _)
Like(pattern, string) ==
    IF pattern = <<>> THEN string = <<>>
    ELSE IF Head(pattern) = "%"
      THEN Like(Tail(pattern), string) \/ (string # <<>> /\ Like(pattern, Tail(string)))
    ELSE /\ string # <<>>
         /\ (Head(pattern) = "_" \/ Head(pattern) = Head(string))
         /\ Like(Tail(pattern), Tail(string))

\* SELECT id, name FROM face_clusters WHERE LOWER(name) LIKE LOWER('%query%'):
\* the rows LIMIT 1 picks one of.
PersonMatches(q) ==
    {c \in DOMAIN face_clusters :
        Like(LowerChars(<<"%">> \o q \o <<"%">>), LowerChars(face_clusters[c].name))}

\* SELECT DISTINCT i.id ... JOIN faces f ON f.image_id = i.id WHERE f.cluster_id = c
PersonImages(c) == {faces[f].image_id : f \in FacesOf(c)}

\* ORDER BY i.created_at DESC, images being numbered in upload order
RECURSIVE NewestFirst(_)
NewestFirst(S) ==
    IF S = {} THEN <<>>
    ELSE LET x == CHOOSE y \in S : \A z \in S : z <= y
         IN <<x>> \o NewestFirst(S \ {x})

SearchResult(image_id, score, global_score, local_score) ==
    [image_id |-> image_id, score |-> score, global_score |-> global_score,
     local_score |-> local_score]

PersonResults(c) ==
    LET rows == NewestFirst(PersonImages(c))
    IN [i \in 1..Len(rows) |-> SearchResult(rows[i], 100, 100, 100)]

MainImageIds == {1, 2, 3}

\* Names of people and queries, as sequences of characters.
PersonNames == {PersonName(1), <<"A", "n", "n">>}

MainQueries ==
    {<<>>, <<"n">>, <<"A", "N">>, <<"x">>, <<"_">>, <<"%">>, <<"1">>}

\* What the vector index answers (ids with global scores, best first) and the
\* local score of each answer, in hundredths.
GlobalScores == {50, 90}

LocalScores == {100}

GLOBAL_WEIGHT == 6

LOCAL_WEIGHT == 4

RECURSIVE SeqOfSet(_)
SeqOfSet(S) ==
    IF S = {} THEN <<>>
    ELSE LET x == CHOOSE y \in S : \A z \in S : y <= z
         IN <<x>> \o SeqOfSet(S \ {x})

\* The local re-ranking loop: rows without image row or file are skipped,
\* final_score = GLOBAL_WEIGHT * global_score + LOCAL_WEIGHT * local_score
\* (in thousandths), then sort by final score, descending.
LocalRerank(search_results, local, unavailable) ==
    LET kept == SelectSeq(search_results, LAMBDA r : r.id \notin unavailable)
    IN SortByScore([i \in 1..Len(kept) |->
           [image_id |-> kept[i].id,
            score |-> GLOBAL_WEIGHT * kept[i].score + LOCAL_WEIGHT * local[kept[i].id],
            global_score |-> kept[i].score,
            local_score |-> local[kept[i].id]]])

\* np.dot(img_embedding, used_emb) > 0.95
TooSimilar(a, b) == {a, b} \in ms_similar

\* RedisCache.get_embedding: client.get raises when the server cannot be
\* reached, a missing key gives None, pickle.loads raises on bytes it cannot
\* deserialize.
get_embedding(image_id) ==
    IF ~ms_redis_up THEN "ConnectionError"
    ELSE IF ms_cache[image_id] = "absent" THEN "None"
    ELSE IF ms_cache[image_id] = "corrupt" THEN "UnpicklingError"
    ELSE "embedding"

IsDiverse_always(item, used) == TRUE

\* is_diverse after the inner loop over used_embeddings
IsDiverse(item, used) ==
    \A i \in 1..Len(used) : ~TooSimilar(item.image_id, used[i].image_id)

InitMainSearch ==
    /\ \E names \in [{1, 2} -> PersonNames \cup {<<>>}] :
       \E owner \in [{1, 2, 3} -> {NoCluster, 1, 2}] :
          /\ owner[1] # 2
          /\ \A f \in {1, 2, 3} : owner[f] # NoCluster => names[owner[f]] # <<>>
          /\ \A c \in {1, 2} : names[c] # <<>> => \E f \in {1, 2, 3} : owner[f] = c
          /\ faces = [f \in {1, 2, 3} |-> FaceRow(IF f = 3 THEN 2 ELSE 1, owner[f])]
          /\ face_clusters =
                [c \in {d \in {1, 2} : names[d] # <<>>} |->
                    ClusterRow(names[c],
                               CHOOSE f \in {1, 2, 3} : owner[f] = c,
                               Cardinality({f \in {1, 2, 3} : owner[f] = c}))]
    /\ ms_query \in MainQueries
    /\ ms_top_k \in 1..MaxTopK
    /\ ms_pc = "start"
    /\ ms_person = NoCluster
    /\ ms_encoded = 0 /\ ms_index_queries = 0 /\ reranked_results = <<>>
    /\ ms_similar = {} /\ ms_unavailable = {} /\ ms_pos = 0
    /\ diverse_results = <<>> /\ ms_results = <<>>
    /\ ms_unloadable = {} /\ ms_cache = [id \in MainImageIds |-> "absent"]
    /\ ms_redis_up = TRUE /\ ms_error = ""
    /\ IdleQuery /\ IdleMatch /\ IdleDeep /\ IdleNormal /\ IdlePeople /\ IdleRest

\* The query matches a person name: return that person's images.
MainSearchPerson ==
    /\ ms_pc = "start"
    /\ \E c \in PersonMatches(ms_query) :
          /\ ms_person' = c
          /\ ms_results' = PersonResults(c)
    /\ ms_pc' = "done"
    /\ UNCHANGED <<vars_rest, ms_query, ms_top_k, ms_encoded, ms_index_queries, reranked_results,
                   ms_similar, ms_unavailable, ms_pos, diverse_results, vars_store,
                   ms_unloadable, ms_cache, ms_redis_up, ms_error,
                   vars_people, vars_query, vars_match, vars_deep, vars_normal>>

\* No person match: encode the three query variations, query the index,
\* score every answer locally and sort.
MainSearchRecall ==
    /\ ms_pc = "start"
    /\ PersonMatches(ms_query) = {}
    /\ ms_encoded' = 3
    /\ ms_index_queries' = 1
    /\ \E answered \in SUBSET MainImageIds :
       \E global \in [MainImageIds -> GlobalScores] :
       \E local \in [MainImageIds -> LocalScores] :
       \E unavailable \in SUBSET ({3} \ ms_unloadable) :
       \E similar \in SUBSET {{1, 2}, {1, 3}, {2, 3}} :
          /\ \A id \in MainImageIds \ answered : global[id] = 50
          /\ unavailable \subseteq answered
          /\ ms_unavailable' = unavailable
          /\ ms_similar' = similar
          /\ IF answered \cap ms_unloadable = {}
               THEN /\ reranked_results' =
                          LocalRerank(SortByScore([i \in 1..Cardinality(answered) |->
                                          [id |-> SeqOfSet(answered)[i],
                                           score |-> global[SeqOfSet(answered)[i]]]]),
                                      local, unavailable)
                    /\ ms_pc' = "diversity"
                    /\ UNCHANGED ms_error
               ELSE \* Image.open raises inside the loop: except Exception -> HTTP 500
                    /\ reranked_results' = <<>>
                    /\ ms_pc' = "failed"
                    /\ ms_error' = "image"
    /\ UNCHANGED <<vars_rest, ms_query, ms_top_k, ms_person, ms_pos, diverse_results, ms_results,
                   ms_unloadable, ms_cache, ms_redis_up,
                   vars_store, vars_people, vars_query, vars_match, vars_deep, vars_normal>>

\* One iteration of the diversity loop.
DiversityStep ==
    /\ ms_pc = "diversity"
    /\ ms_pos < Len(reranked_results)
    /\ LET item == reranked_results[ms_pos + 1]
           cached == get_embedding(item.image_id)
           accept ==
               /\ diverse_results' =
                     IF IsDiverse(item, diverse_results)
                       THEN Append(diverse_results, item) ELSE diverse_results
               /\ ms_pc' = IF Len(diverse_results') >= ms_top_k
                             THEN "format" ELSE "diversity"
       IN /\ ms_pos' = ms_pos + 1
          /\ CASE cached \in {"ConnectionError", "UnpicklingError"} ->
                     \* the exception leaves the loop: except Exception -> HTTP 500
                     /\ ms_pc' = "failed" /\ ms_error' = cached
                     /\ UNCHANGED <<diverse_results, ms_cache>>
               [] cached = "embedding" ->
                     accept /\ UNCHANGED <<ms_cache, ms_error>>
               [] cached = "None" /\ item.image_id \in ms_unavailable ->
                     UNCHANGED <<diverse_results, ms_pc, ms_cache, ms_error>>
               [] cached = "None" /\ item.image_id \in ms_unloadable ->
                     /\ ms_pc' = "failed" /\ ms_error' = "image"
                     /\ UNCHANGED <<diverse_results, ms_cache>>
               [] OTHER ->
                     \* encode_image, then redis_cache.set_embedding
                     /\ accept
                     /\ ms_cache' = [ms_cache EXCEPT ![item.image_id] = "valid"]
                     /\ UNCHANGED ms_error
    /\ UNCHANGED <<vars_rest, ms_query, ms_top_k, ms_person, ms_encoded, ms_index_queries,
                   reranked_results, ms_similar, ms_unavailable, ms_results, vars_store,
                   ms_unloadable, ms_redis_up,
                   vars_people, vars_query, vars_match, vars_deep, vars_normal>>

\* After the loop: format diverse_results and return.
MainSearchReturn ==
    /\ \/ ms_pc = "format"
       \/ ms_pc = "diversity" /\ ms_pos = Len(reranked_results)
    /\ ms_results' =
          [i \in 1..Len(diverse_results) |->
              SearchResult(diverse_results[i].image_id, diverse_results[i].score,
                           diverse_results[i].global_score, diverse_results[i].local_score)]
    /\ ms_pc' = "done"
    /\ UNCHANGED <<vars_rest, ms_query, ms_top_k, ms_person, ms_encoded, ms_index_queries,
                   reranked_results, ms_similar, ms_unavailable, ms_pos, diverse_results,
                   ms_unloadable, ms_cache, ms_redis_up, ms_error,
                   vars_store, vars_people, vars_query, vars_match, vars_deep, vars_normal>>

NextMainSearch == MainSearchPerson \/ MainSearchRecall \/ DiversityStep \/ MainSearchReturn

SpecMainSearch == InitMainSearch /\ [][NextMainSearch]_vars

\* The same endpoint with an embedding cache and image files that can fail:
\* one person ("Ann", on image 1), Redis up or down, the entries of images 1
\* and 2 absent, valid or corrupt, and the file of image 2 loadable or not.
CacheStates == {"absent", "valid", "corrupt"}

RerankQueries == {<<"x">>, <<"n">>}

InitRerank ==
    /\ faces = <<FaceRow(1, 1)>>
    /\ face_clusters = <<ClusterRow(<<"A", "n", "n">>, 1, 1)>>
    /\ ms_query \in RerankQueries
    /\ ms_top_k \in 1..MaxTopK
    /\ ms_pc = "start"
    /\ ms_person = NoCluster
    /\ ms_encoded = 0 /\ ms_index_queries = 0 /\ reranked_results = <<>>
    /\ ms_similar = {} /\ ms_unavailable = {} /\ ms_pos = 0
    /\ diverse_results = <<>> /\ ms_results = <<>>
    /\ ms_unloadable \in SUBSET {2}
    /\ ms_cache \in {c \in [MainImageIds -> CacheStates] : c[3] = "absent"}
    /\ ms_redis_up \in BOOLEAN
    /\ ms_error = ""
    /\ IdleQuery /\ IdleMatch /\ IdleDeep /\ IdleNormal /\ IdlePeople /\ IdleRest

SpecRerank == InitRerank /\ [][NextMainSearch]_vars

----------------------------------------------------------------------------
(* Properties of the /search endpoint *)

\* needle in haystack, for sequences of characters
IsSubstring(needle, haystack) ==
    \E i \in 1..(Len(haystack) - Len(needle) + 1) :
        SubSeq(haystack, i, i + Len(needle) - 1) = needle

SubstringMatches ==
    {c \in DOMAIN face_clusters :
        IsSubstring(LowerChars(ms_query), LowerChars(face_clusters[c].name))}

ResultIds == {ms_results[i].image_id : i \in 1..Len(ms_results)}

\* C12 as stated: when the query is a case-insensitive substring of some
\* cluster's name, the endpoint encodes no text, queries no index and returns
\* exactly the images with a face in the one matching cluster it picked, each
\* once and with score 1.0; when the query is a substring of no cluster's
\* name, the embedding path is taken.
C12_PersonOverride ==
    ms_pc = "done" =>
        IF SubstringMatches # {}
          THEN /\ ms_encoded = 0 /\ ms_index_queries = 0
               /\ ms_person \in SubstringMatches
               /\ ResultIds = {faces[f].image_id : f \in FacesOf(ms_person)}
               /\ Len(ms_results) = Cardinality(ResultIds)
               /\ \A i \in 1..Len(ms_results) : ms_results[i].score = 100
          ELSE /\ ms_person = NoCluster
               /\ ms_encoded = 3 /\ ms_index_queries = 1

PosIn(id) == CHOOSE i \in 1..Len(reranked_results) : reranked_results[i].image_id = id

\* C13: after the diversity pass no two returned images are more than 0.95
\* similar, the returned items are a subsequence of the score-sorted
\* candidate list, at most top_k are returned, and the candidate examined
\* last is the one accepted last whenever top_k were accepted.
C13_DiversePrefix ==
    (ms_pc = "done" /\ ms_person = NoCluster) =>
        /\ \A i, j \in 1..Len(ms_results) :
              i < j => /\ ~TooSimilar(ms_results[i].image_id, ms_results[j].image_id)
                       /\ PosIn(ms_results[i].image_id) < PosIn(ms_results[j].image_id)
        /\ \A i \in 1..Len(ms_results) :
              \E k \in 1..Len(reranked_results) :
                  /\ reranked_results[k].image_id = ms_results[i].image_id
                  /\ reranked_results[k].score = ms_results[i].score
        /\ Len(ms_results) <= ms_top_k
        /\ ms_pos <= Len(reranked_results)
        /\ Len(ms_results) = ms_top_k =>
              reranked_results[ms_pos].image_id = ms_results[Len(ms_results)].image_id

\* A near-duplicate of the best image was passed over, the next candidate
\* filled the result, and a further candidate was never examined.
C13_Witness ==
    /\ ms_pc = "done" /\ ms_person = NoCluster
    /\ Len(reranked_results) = 3
    /\ ms_top_k = 2 /\ Len(ms_results) = 2 /\ ms_pos = 3
    /\ TooSimilar(reranked_results[1].image_id, reranked_results[2].image_id)
    /\ ms_results[2].image_id = reranked_results[3].image_id

----------------------------------------------------------------------------
(* clustering_service.py and the people endpoints of main.py *)

MaxFaces == 3

MaxUuids == 3

\* The /cluster-faces requests in flight; a request that has returned is
\* followed by the next one.
Requests == {1, 2}

\* The names a caller labels or merges with.
LabelNames == {PersonName(1), <<"A", "n", "n">>}

min_samples == 1

\* f restricted to the keys in S
Restrict(f, S) == [x \in S |-> f[x]]

\* The handlers are coroutines without a suspension point, run by one event
\* loop: a handler starts only when no other handler is running.
LoopFree_ignored == TRUE

LoopFree == loop_running = 0

Outcome(op, outcome) == [op |-> op, outcome |-> outcome]

\* SELECT id, face_embedding FROM faces WHERE cluster_id IS NULL
SelectUnassigned_all == DOMAIN faces

SelectUnassigned == {f \in DOMAIN faces : faces[f].cluster_id = NoCluster}

\* face_count = (SELECT COUNT(*) FROM faces WHERE cluster_id = c), on row
RecountedCluster_stale(row, fs, c) == row

RecountedCluster(row, fs, c) ==
    [row EXCEPT !.face_count = Cardinality({f \in DOMAIN fs : fs[f].cluster_id = c})]

\* UPDATE faces SET cluster_id = to WHERE cluster_id = from
MoveFaces(fs, from, to) ==
    [f \in DOMAIN fs |->
        IF fs[f].cluster_id = from THEN [fs[f] EXCEPT !.cluster_id = to] ELSE fs[f]]

\* DBSCAN on the precomputed distance matrix; near holds the pairs of faces
\* at distance <= eps.
Neighbours(f, S, near) == {g \in S : g = f \/ {f, g} \in near}

\* A plausible slip: a face needs a second face within eps to be a core point.
CorePoints_strict(S, near) == {f \in S : Cardinality(Neighbours(f, S, near)) >= 2}

CorePoints(S, near) == {f \in S : Cardinality(Neighbours(f, S, near)) >= min_samples}

\* The faces density-reachable from the faces in C.
RECURSIVE Grow(_, _, _)
Grow(C, S, near) ==
    LET more == UNION {Neighbours(f, S, near) : f \in C \cap CorePoints(S, near)}
    IN IF more \subseteq C THEN C ELSE Grow(C \cup more, S, near)

\* labels of fit_predict: the points are scanned in order, every core point
\* without a label starts the next cluster, which takes the points reachable
\* from it that have no label yet; the points left over are noise, -1.
RECURSIVE Scan(_, _, _, _, _)
Scan(todo, labels, next, S, near) ==
    IF todo = <<>> THEN labels
    ELSE LET f == Head(todo)
         IN IF labels[f] = -1 /\ f \in CorePoints(S, near)
              THEN Scan(Tail(todo),
                        [g \in S |-> IF labels[g] = -1 /\ g \in Grow({f}, S, near)
                                       THEN next ELSE labels[g]],
                        next + 1, S, near)
              ELSE Scan(Tail(todo), labels, next, S, near)

fit_predict(S, near) == Scan(SeqOfSet(S), [f \in S |-> -1], 0, S, near)

\* Statistics returned by cluster_faces.
Stats(total_faces, clustered, clusters_created, outliers) ==
    [total_faces |-> total_faces, clustered |-> clustered,
     clusters_created |-> clusters_created, outliers |-> outliers]

\* merge_clusters: len(cluster_ids) < 2 raises ValueError
MergeArgsValid_lenient(cluster_ids) == Len(cluster_ids) >= 1

MergeArgsValid(cluster_ids) == Len(cluster_ids) >= 2

\* label_person: SELECT ... FROM face_clusters WHERE name = n AND id != c
NameTaken_none(c, n) == {}

NameTaken(c, n) == {e \in DOMAIN face_clusters \ {c} : face_clusters[e].name = n}

InitPeople ==
    /\ faces = <<>>
    /\ face_clusters = <<>>
    /\ uuids_made = 0
    /\ faces_made = 0
    /\ people_op = NotYet
    /\ loop_running = 0
    /\ cf_pc = [r \in Requests |-> "pending"]
    /\ cf_rows = [r \in Requests |-> {}]
    /\ IdleQuery /\ IdleMatch /\ IdleDeep /\ IdleNormal /\ IdleMainSearch /\ IdleRest

\* upload_image stores a detected face, unassigned.
UploadFace ==
    /\ LoopFree
    /\ faces_made < MaxFaces
    /\ faces_made' = faces_made + 1
    /\ faces' = [f \in DOMAIN faces \cup {faces_made + 1} |->
                    IF f = faces_made + 1
                      THEN FaceRow(faces_made + 1, NoCluster) ELSE faces[f]]
    /\ people_op' = Outcome("upload_image", "ok")
    /\ UNCHANGED <<vars_rest, face_clusters, uuids_made, loop_running, cf_pc, cf_rows, vars_msearch,
                   vars_query, vars_match, vars_deep, vars_normal>>

\* cluster_faces up to the early return: select the unassigned faces.
ClusterSelect(r) ==
    /\ cf_pc[r] = "pending"
    /\ LoopFree
    /\ cf_rows' = [cf_rows EXCEPT ![r] = SelectUnassigned]
    /\ IF cf_rows'[r] = {}
         THEN /\ people_op' = Outcome("cluster_faces", Stats(0, 0, 0, 0))
              /\ UNCHANGED <<loop_running, cf_pc>>
         ELSE /\ cf_pc' = [cf_pc EXCEPT ![r] = "selected"]
              /\ loop_running' = r
              /\ UNCHANGED people_op
    /\ UNCHANGED <<vars_rest, vars_store, uuids_made, faces_made, vars_msearch,
                   vars_query, vars_match, vars_deep, vars_normal>>

\* cluster_faces from the distance matrix to the commit.
ClusterCommit(r) ==
    /\ cf_pc[r] = "selected"
    /\ loop_running = r
    /\ \E near \in SUBSET {pair \in {{f, g} : f, g \in cf_rows[r]} : Cardinality(pair) = 2} :
       \E labels \in {fit_predict(cf_rows[r], near)} :
       \E unique_labels \in {{labels[f] : f \in cf_rows[r]} \ {-1}} :
          LET face_ids == cf_rows[r]
              members(l) == {f \in face_ids : labels[f] = l}
              cluster_id(l) == uuids_made + l + 1
          IN /\ uuids_made + Cardinality(unique_labels) <= MaxUuids
             /\ \E representatives \in SUBSET face_ids :
                   /\ \A l \in unique_labels :
                         Cardinality(representatives \cap members(l)) = 1
                   /\ \A f \in representatives : labels[f] # -1
                   /\ face_clusters' =
                         [c \in DOMAIN face_clusters \cup {cluster_id(l) : l \in unique_labels} |->
                             IF c \in DOMAIN face_clusters THEN face_clusters[c]
                             ELSE LET l == c - uuids_made - 1
                                  IN ClusterRow(PersonName(l + 1),
                                                CHOOSE f \in representatives : labels[f] = l,
                                                Cardinality(members(l)))]
             /\ faces' = [f \in DOMAIN faces |->
                             IF f \in face_ids /\ labels[f] # -1
                               THEN [faces[f] EXCEPT !.cluster_id = cluster_id(labels[f])]
                               ELSE faces[f]]
             /\ uuids_made' = uuids_made + Cardinality(unique_labels)
             /\ people_op' =
                   Outcome("cluster_faces",
                           Stats(Cardinality(face_ids),
                                 Cardinality({f \in face_ids : labels[f] # -1}),
                                 Cardinality(unique_labels),
                                 Cardinality({f \in face_ids : labels[f] = -1})))
    /\ cf_pc' = [cf_pc EXCEPT ![r] = "pending"]
    /\ cf_rows' = [cf_rows EXCEPT ![r] = {}]
    /\ loop_running' = 0
    /\ UNCHANGED <<vars_rest, faces_made, vars_msearch,
                   vars_query, vars_match, vars_deep, vars_normal>>

merge_clusters(cluster_ids, new_name) ==
    /\ LoopFree
    /\ IF ~MergeArgsValid(cluster_ids)
         THEN /\ people_op' = Outcome("merge_clusters", "ValueError")
              /\ UNCHANGED vars_store
         ELSE LET primary_cluster_id == cluster_ids[1]
                  secondary_cluster_ids == {cluster_ids[i] : i \in 2..Len(cluster_ids)}
                  moved == [f \in DOMAIN faces |->
                               IF faces[f].cluster_id \in secondary_cluster_ids
                                 THEN [faces[f] EXCEPT !.cluster_id = primary_cluster_id]
                                 ELSE faces[f]]
                  kept == Restrict(face_clusters, DOMAIN face_clusters \ secondary_cluster_ids)
              IN /\ faces' = moved
                 /\ face_clusters' =
                       [c \in DOMAIN kept |->
                           IF c = primary_cluster_id
                             THEN RecountedCluster([kept[c] EXCEPT !.name = new_name], moved, c)
                             ELSE kept[c]]
                 /\ people_op' = Outcome("merge_clusters", "merged")
    /\ UNCHANGED <<vars_rest, uuids_made, faces_made, loop_running, cf_pc, cf_rows, vars_msearch,
                   vars_query, vars_match, vars_deep, vars_normal>>

label_person(cluster_id, name) ==
    /\ LoopFree
    /\ IF NameTaken(cluster_id, name) # {}
         THEN \E existing_cluster_id \in NameTaken(cluster_id, name) :
                 LET moved == MoveFaces(faces, cluster_id, existing_cluster_id)
                     kept == Restrict(face_clusters, DOMAIN face_clusters \ {cluster_id})
                 IN /\ faces' = moved
                    /\ face_clusters' =
                          [c \in DOMAIN kept |->
                              IF c = existing_cluster_id
                                THEN RecountedCluster(kept[c], moved, c) ELSE kept[c]]
                    /\ people_op' = Outcome("label_person", "merged")
         ELSE IF cluster_id \in DOMAIN face_clusters
           THEN /\ face_clusters' = [face_clusters EXCEPT ![cluster_id].name = name]
                /\ people_op' = Outcome("label_person", "labeled")
                /\ UNCHANGED faces
           ELSE /\ people_op' = Outcome("label_person", "404")
                /\ UNCHANGED vars_store
    /\ UNCHANGED <<vars_rest, uuids_made, faces_made, loop_running, cf_pc, cf_rows, vars_msearch,
                   vars_query, vars_match, vars_deep, vars_normal>>

delete_person(cluster_id) ==
    /\ LoopFree
    /\ IF cluster_id \notin DOMAIN face_clusters
         THEN /\ people_op' = Outcome("delete_person", "404")
              /\ UNCHANGED vars_store
         ELSE /\ faces' = Restrict(faces, DOMAIN faces \ FacesOf(cluster_id))
              /\ face_clusters' = Restrict(face_clusters, DOMAIN face_clusters \ {cluster_id})
              /\ people_op' = Outcome("delete_person", "deleted")
    /\ UNCHANGED <<vars_rest, uuids_made, faces_made, loop_running, cf_pc, cf_rows, vars_msearch,
                   vars_query, vars_match, vars_deep, vars_normal>>

\* The cluster ids a caller can name: those handed out so far.
KnownIds == 1..uuids_made

\* The names a caller merges with.
MergeNames == {<<"A", "n", "n">>}

\* The argument lists of merge_clusters: none, one or two cluster ids.
MergeArgs == UNION {[1..n -> KnownIds] : n \in {0, 1, 2}}

ClusterFacesStep == \E r \in Requests : ClusterSelect(r) \/ ClusterCommit(r)

MergeStep == \E cluster_ids \in MergeArgs : \E new_name \in MergeNames : merge_clusters(cluster_ids, new_name)

LabelStep == \E c \in KnownIds : \E n \in LabelNames : label_person(c, n)

DeleteStep == \E c \in KnownIds : delete_person(c)

NextPeople == UploadFace \/ ClusterFacesStep \/ MergeStep \/ LabelStep \/ DeleteStep

SpecPeople == InitPeople /\ [][NextPeople]_vars

----------------------------------------------------------------------------
(* Properties of the people store *)

\* C14 as stated: every face whose cluster_id is set references a cluster
\* row that exists, and every cluster's representative face is a face whose
\* cluster_id is that cluster.
C14_StoreConsistent ==
    /\ \A f \in DOMAIN faces :
          faces[f].cluster_id # NoCluster => faces[f].cluster_id \in DOMAIN face_clusters
    /\ \A c \in DOMAIN face_clusters :
          /\ face_clusters[c].representative_face_id \in DOMAIN faces
          /\ faces[face_clusters[c].representative_face_id].cluster_id = c

\* C15: every cluster's face_count is the number of faces carrying its id,
\* and no cluster without faces exists.
C15_FaceCountExact ==
    \A c \in DOMAIN face_clusters :
        /\ face_clusters[c].face_count = Cardinality(FacesOf(c))
        /\ FacesOf(c) # {}

\* A merge has recomputed the count of a cluster that gained faces.
C15_Witness ==
    /\ people_op = Outcome("merge_clusters", "merged")
    /\ \E c \in DOMAIN face_clusters : face_clusters[c].face_count >= 2
    /\ Cardinality(DOMAIN face_clusters) < uuids_made

\* C16 as stated: after merge_clusters([p, s1, ..., sn]), n >= 1, on an
\* existing cluster p, every face that was in p or some si is in p, the rows
\* of all si are gone, p exists with face_count the number of those faces,
\* and the other faces are unchanged.
C16_MergePostcondition ==
    [][\A cluster_ids \in [{1, 2} -> KnownIds] : \A new_name \in MergeNames :
          (/\ people_op' = Outcome("merge_clusters", "merged")
           /\ cluster_ids[1] \in DOMAIN face_clusters
           /\ merge_clusters(cluster_ids, new_name))
          => LET primary == cluster_ids[1]
                 secondary == {cluster_ids[i] : i \in 2..Len(cluster_ids)}
                 named == {primary} \cup secondary
                 merged == {f \in DOMAIN faces : faces[f].cluster_id \in named}
             IN /\ DOMAIN faces' = DOMAIN faces
                /\ \A f \in merged : faces'[f].cluster_id = primary
                /\ \A f \in DOMAIN faces \ merged : faces'[f] = faces[f]
                /\ \A c \in secondary : c \notin DOMAIN face_clusters'
                /\ primary \in DOMAIN face_clusters'
                /\ face_clusters'[primary].face_count = Cardinality(merged)]_vars

\* C17: merge_clusters with fewer than 2 cluster ids fails with ValueError
\* and leaves both tables as they were.
C17_MergeRejected ==
    [][\A cluster_ids \in {<<>>} \cup [{1} -> KnownIds] : \A new_name \in MergeNames :
          (/\ people_op' # NotYet
           /\ people_op'.op = "merge_clusters"
           /\ merge_clusters(cluster_ids, new_name))
          => /\ people_op' = Outcome("merge_clusters", "ValueError")
             /\ faces' = faces
             /\ face_clusters' = face_clusters]_vars

\* A merge was rejected while clusters exist.
C17_Witness ==
    /\ people_op = Outcome("merge_clusters", "ValueError")
    /\ Cardinality(DOMAIN face_clusters) >= 2

\* The clusters other than c that carry the name n.
OthersNamed(c, n) == {e \in DOMAIN face_clusters \ {c} : face_clusters[e].name = n}

\* What label_person(c, n) does to the faces of c and to the rows.
LabelEffect(c, n) ==
    IF OthersNamed(c, n) # {}
      THEN /\ c \notin DOMAIN face_clusters'
           /\ \E e \in OthersNamed(c, n) :
                 /\ \A f \in DOMAIN faces :
                       faces'[f].cluster_id =
                           IF faces[f].cluster_id = c THEN e ELSE faces[f].cluster_id
                 /\ face_clusters'[e].face_count =
                       Cardinality({f \in DOMAIN faces : faces[f].cluster_id \in {c, e}})
      ELSE /\ faces' = faces
           /\ c \in DOMAIN face_clusters =>
                 /\ c \in DOMAIN face_clusters'
                 /\ face_clusters'[c].name = n

\* C18 as stated: label_person(c, n) merges c into a different cluster that
\* carries n, or else renames c; afterwards no two clusters carry n.
C18_NoDuplicateName ==
    [][\A c \in KnownIds : \A n \in LabelNames :
          (people_op' # NotYet /\ people_op'.op = "label_person" /\ label_person(c, n))
          => /\ LabelEffect(c, n)
             /\ Cardinality({e \in DOMAIN face_clusters' : face_clusters'[e].name = n}) <= 1]_vars

\* C18 amended: label_person(c, n) merges c into a different cluster that
\* carries n, or else renames c; afterwards the clusters carrying n are the
\* clusters other than c that carried it before, or c alone when there was
\* none, so two clusters carry n afterwards only if two clusters other than
\* c did before.
C18_NoNewDuplicateName ==
    [][\A c \in KnownIds : \A n \in LabelNames :
          (people_op' # NotYet /\ people_op'.op = "label_person" /\ label_person(c, n))
          => /\ LabelEffect(c, n)
             /\ {e \in DOMAIN face_clusters' : face_clusters'[e].name = n} =
                   IF OthersNamed(c, n) # {} THEN OthersNamed(c, n)
                   ELSE {c} \cap DOMAIN face_clusters]_vars

\* A label merged a cluster into the one that carried the name.
C18_Witness ==
    /\ people_op = Outcome("label_person", "merged")
    /\ \E c \in DOMAIN face_clusters :
          face_clusters[c].name = <<"A", "n", "n">> /\ face_clusters[c].face_count >= 2
    /\ Cardinality(DOMAIN face_clusters) < uuids_made

\* C19: a cluster_faces run selects exactly the unassigned faces, changes no
\* face that was assigned and no cluster row that existed, assigns only
\* selected faces, leaves the faces it counts as outliers unassigned, and
\* with nothing to select returns all-zero statistics and changes nothing.
C19_OnlyUnassignedTouched ==
    [][\A r \in Requests :
          LET unassigned == {f \in DOMAIN faces : faces[f].cluster_id = NoCluster}
              selects == cf_pc[r] = "pending" /\ cf_pc'[r] = "selected"
              commits == cf_pc[r] = "selected" /\ cf_pc'[r] = "pending"
              returns_early == /\ cf_pc' = cf_pc
                               /\ people_op' # NotYet
                               /\ people_op'.op = "cluster_faces"
          IN /\ selects =>
                   /\ unassigned # {}
                   /\ cf_rows'[r] = unassigned
                   /\ faces' = faces /\ face_clusters' = face_clusters
             /\ returns_early =>
                   /\ unassigned = {}
                   /\ people_op' = Outcome("cluster_faces", Stats(0, 0, 0, 0))
                   /\ faces' = faces /\ face_clusters' = face_clusters
             /\ commits =>
                   /\ DOMAIN faces' = DOMAIN faces
                   /\ \A f \in DOMAIN faces \ unassigned : faces'[f] = faces[f]
                   /\ \A f \in DOMAIN faces : faces'[f] # faces[f] => f \in cf_rows[r]
                   /\ \A c \in DOMAIN face_clusters :
                         c \in DOMAIN face_clusters' /\ face_clusters'[c] = face_clusters[c]
                   /\ people_op'.outcome.outliers =
                         Cardinality({f \in cf_rows[r] : faces'[f].cluster_id = NoCluster})
                   /\ people_op'.outcome.clustered + people_op'.outcome.outliers =
                         people_op'.outcome.total_faces]_vars

\* A run has created clusters next to one that existed before it.
C19_Witness ==
    /\ people_op # NotYet
    /\ people_op.op = "cluster_faces"
    /\ people_op.outcome.clusters_created >= 1
    /\ Cardinality(DOMAIN face_clusters) > people_op.outcome.clusters_created
    /\ \A r \in Requests : cf_pc[r] = "pending"

\* C20: no two cluster_faces runs are between their select and their commit
\* at the same time, and the faces a run has selected stay unassigned until
\* that run commits.
C20_RunsDoNotOverlap ==
    /\ \A r1, r2 \in Requests :
          (cf_pc[r1] = "selected" /\ cf_pc[r2] = "selected") => r1 = r2
    /\ \A r1, r2 \in Requests : r1 # r2 => cf_rows[r1] \cap cf_rows[r2] = {}
    /\ \A r \in Requests :
          cf_pc[r] = "selected" =>
              \A f \in cf_rows[r] : f \in DOMAIN faces /\ faces[f].cluster_id = NoCluster

\* One request is between select and commit while the other waits, and an
\* earlier run has already committed.
C20_Witness ==
    /\ cf_pc[1] = "selected" /\ cf_pc[2] = "pending"
    /\ cf_rows[1] # {}
    /\ face_clusters # <<>>


----------------------------------------------------------------------------
(* routers/search.py and services/search.py on the event loop *)

\* Requests in flight on the one event loop, and the number of terms a
\* normal_search call encodes and looks up (deep_search: one).
SearchRequests == {1, 2, 3}

MaxServeTerms == 2

\* An await gives the event loop to another coroutine only when the awaited
\* coroutine itself suspends.  search_images of services/qdrant.py is an
\* async def whose body has no await (the Qdrant client is synchronous), and
\* encode_text is an ordinary function: neither suspends.
Suspends(operation) == FALSE

InitServe ==
    /\ sv_pc = [r \in SearchRequests |-> "idle"]
    /\ sv_mode = [r \in SearchRequests |-> "normal"]
    /\ sv_left = [r \in SearchRequests |-> 0]
    /\ sv_loop = 0
    /\ IdleOld /\ IdleNotServe

\* A request for /search/normal or /search/deep arrives.
ServeArrive(r) ==
    /\ sv_pc[r] = "idle"
    /\ \E mode \in {"normal", "deep"} :
       \E n \in 1..MaxServeTerms :
          /\ mode = "deep" => n = 1
          /\ sv_mode' = [sv_mode EXCEPT ![r] = mode]
          /\ sv_left' = [sv_left EXCEPT ![r] = n]
    /\ sv_pc' = [sv_pc EXCEPT ![r] = "queued"]
    /\ UNCHANGED <<sv_loop, vars_old, vars_not_serve>>

\* The event loop, when no coroutine is running, starts the handler of a
\* queued request; the handler runs up to its call of encode_text.
ServeStart(r) ==
    /\ sv_loop = 0
    /\ sv_pc[r] = "queued"
    /\ sv_loop' = r
    /\ sv_pc' = [sv_pc EXCEPT ![r] = "encode"]
    /\ UNCHANGED <<sv_mode, sv_left, vars_old, vars_not_serve>>

\* encode_text returns; the call of search_images begins.
ServeEncoded(r) ==
    /\ sv_pc[r] = "encode"
    /\ sv_pc' = [sv_pc EXCEPT ![r] = "index"]
    /\ sv_loop' = IF Suspends("search_images") THEN 0 ELSE sv_loop
    /\ UNCHANGED <<sv_mode, sv_left, vars_old, vars_not_serve>>

\* The vector index answers: the next term, or the rest of the handler and
\* the response.  A coroutine that had suspended resumes when the loop is free.
ServeIndexed(r) ==
    /\ sv_pc[r] = "index"
    /\ sv_loop \in {0, r}
    /\ sv_left' = [sv_left EXCEPT ![r] = @ - 1]
    /\ IF sv_left[r] > 1
         THEN /\ sv_pc' = [sv_pc EXCEPT ![r] = "encode"]
              /\ sv_loop' = IF Suspends("encode_text") THEN 0 ELSE r
         ELSE /\ sv_pc' = [sv_pc EXCEPT ![r] = "done"]
              /\ sv_loop' = 0
    /\ UNCHANGED <<sv_mode, vars_old, vars_not_serve>>

NextServe ==
    \E r \in SearchRequests :
        ServeArrive(r) \/ ServeStart(r) \/ ServeEncoded(r) \/ ServeIndexed(r)

SpecServe == InitServe /\ [][NextServe]_vars

\* The requests waiting on the embedding oracle or on the vector index.
Waiting == {r \in SearchRequests : sv_pc[r] \in {"encode", "index"}}

\* C23 as stated: while a search call waits on encode_text or on the vector
\* index the event loop is not held, so that another queued request can be
\* started before the operation returns.  Violated: the loop stays with the
\* waiting request.
C23_LoopNotHeld ==
    \A r \in Waiting :
        /\ sv_loop # r
        /\ \A other \in SearchRequests \ {r} :
              sv_pc[other] = "queued" => ENABLED ServeStart(other)

----------------------------------------------------------------------------
(* services/qdrant.py: one collection per user *)

\* User ids and point ids; an embedding is one of two vectors.
Users == {<<"u", "1">>, <<"u", "2">>}

IsoPoints == {1, 2}

Embeddings == {"e1", "e2"}

\* Cosine similarity of a term's embedding and a stored embedding, as a raw
\* score: a fixed function of both (one-word terms lie near e1, longer
\* terms near e2).
Similarity(term, embedding) ==
    IF (Len(term) = 1) = (embedding = "e1") THEN 10 ELSE 0

\* A plausible slip: one collection shared by every user.
get_images_collection_name_shared(user_id) == <<"images_">>

\* f"images_{user_id}"
get_images_collection_name(user_id) == <<"images_">> \o user_id

\* search_images on the index state world: [] when the user's collection
\* does not exist, else the limit nearest points, best first (equal scores
\* by point id).
search_images(world, user_id, term, limit) ==
    LET collection_name == get_images_collection_name(user_id)
    IN IF collection_name \notin DOMAIN world THEN <<>>
       ELSE LET points == world[collection_name]
                ids == SeqOfSet(DOMAIN points)
                results == SortByScore([i \in 1..Len(ids) |->
                               [id |-> ids[i], score |-> Similarity(term, points[ids[i]])]])
            IN SubSeq(results, 1, Min(limit, Len(results)))

\* upsert_image_embedding: ensure_collection, then client.upsert
upsert_image_embedding(world, user_id, image_id, embedding) ==
    LET collection_name == get_images_collection_name(user_id)
        points == IF collection_name \in DOMAIN world THEN world[collection_name] ELSE <<>>
        upserted == [id \in DOMAIN points \cup {image_id} |->
                        IF id = image_id THEN embedding ELSE points[id]]
    IN [name \in DOMAIN world \cup {collection_name} |->
           IF name = collection_name THEN upserted ELSE world[name]]

\* normal_search as a function of the index state: the loop over the terms,
\* the merge and the formatting.
RECURSIVE NormalLoop(_, _, _, _, _, _, _)
NormalLoop(world, user_id, terms, normalized_query, top_k, direct, expanded) ==
    IF terms = <<>> THEN NormalResults(MergeBest(direct, expanded), top_k)
    ELSE LET term == Head(terms)
             results == search_images(world, user_id, term, Min(top_k, 10))
         IN IF term = normalized_query
              THEN NormalLoop(world, user_id, Tail(terms), normalized_query, top_k,
                              AbsorbResults(direct, results, term, TRUE), expanded)
              ELSE NormalLoop(world, user_id, Tail(terms), normalized_query, top_k,
                              direct, AbsorbResults(expanded, results, term, FALSE))

normal_search(world, q, user_id, top_k) ==
    LET terms == OrderedTerms(q)
    IN NormalLoop(world, user_id, SubSeq(terms, 1, MaxTerms(LowerAll(q), terms)),
                  LowerAll(q), top_k, <<>>, <<>>)

\* deep_search as a function of the index state: recall, scoring, the
\* relaxation levels while too few results are good, ranking.
RECURSIVE RelaxLevels(_, _, _, _)
RelaxLevels(scored, attrs, lvl, top_k) ==
    LET relaxed == [i \in 1..Len(scored) |->
                       RelaxCandidate(scored[i], apply_relaxation(attrs, lvl),
                                      get_query_importance)]
    IN IF lvl < 3 /\ NeedsRelaxation(relaxed, top_k)
         THEN RelaxLevels(relaxed, attrs, lvl + 1, top_k) ELSE relaxed

deep_search(world, q, user_id, top_k) ==
    LET found == search_images(world, user_id, q, DEEP_SEARCH_CANDIDATE_K)
        attrs == parse_query(q)
        scored == [i \in 1..Len(found) |->
                      ScoreCandidate(found[i], attrs, get_query_importance)]
    IN IF found = <<>> THEN <<>>
       ELSE FormatDeep(TopResults(IF NeedsRelaxation(scored, top_k)
                                    THEN RelaxLevels(scored, attrs, 1, top_k)
                                    ELSE scored,
                                  top_k))

\* The points user_id has indexed in world, none when the user has no
\* collection.
Namespace(world, user_id) ==
    IF <<"images_">> \o user_id \in DOMAIN world
      THEN world[<<"images_">> \o user_id] ELSE <<>>

IsoQueries == {<<"road">>, <<"happy", "dog">>}

InitIso ==
    /\ iso_worlds = <<<<>>, <<>>>>
    /\ iso_user \in Users
    /\ iso_request = NotYet
    /\ iso_result = <<>>
    /\ IdleOld /\ IdleNotIso

\* The compared user indexes an image: the same in both states.
IsoUpsertOwn ==
    \E image_id \in IsoPoints, embedding \in Embeddings :
        /\ iso_request = NotYet
        /\ iso_worlds' =
              [w \in {1, 2} |->
                  upsert_image_embedding(iso_worlds[w], iso_user, image_id, embedding)]
        /\ UNCHANGED <<iso_user, iso_request, iso_result, vars_old, vars_not_iso>>

\* Another user indexes an image, in one of the two states only.
IsoUpsertOther ==
    \E w \in {1, 2}, other \in Users \ {iso_user},
       image_id \in IsoPoints, embedding \in Embeddings :
        /\ iso_request = NotYet
        /\ iso_worlds' =
              [iso_worlds EXCEPT ![w] =
                  upsert_image_embedding(iso_worlds[w], other, image_id, embedding)]
        /\ UNCHANGED <<iso_user, iso_request, iso_result, vars_old, vars_not_iso>>

\* The compared user makes the same search in both states, once the
\* indexing is over.
IsoSearch ==
    \E mode \in {"normal", "deep"}, q \in IsoQueries, top_k \in 1..MaxTopK :
        /\ iso_request = NotYet
        /\ iso_request' = [mode |-> mode, query |-> q, top_k |-> top_k,
                            indexed |-> DOMAIN Namespace(iso_worlds[1], iso_user)]
        /\ iso_result' =
              [w \in {1, 2} |->
                  IF mode = "normal"
                    THEN normal_search(iso_worlds[w], q, iso_user, top_k)
                    ELSE deep_search(iso_worlds[w], q, iso_user, top_k)]
        /\ UNCHANGED <<iso_worlds, iso_user, vars_old, vars_not_iso>>

NextIso == IsoUpsertOwn \/ IsoUpsertOther \/ IsoSearch

SpecIso == InitIso /\ [][NextIso]_vars

\* C24: two index states that agree on the user's own images give the
\* user the same search result whatever the other users have indexed, and
\* a user without a collection gets the empty result.
C24_Isolation ==
    /\ Namespace(iso_worlds[1], iso_user) = Namespace(iso_worlds[2], iso_user)
    /\ iso_request # NotYet =>
          /\ iso_result[1] = iso_result[2]
          /\ \A i \in 1..Len(iso_result[1]) : iso_result[1][i].id \in iso_request.indexed
          /\ iso_request.indexed = {} => iso_result[1] = <<>>

\* The user has indexed images, the other user's images differ between the
\* two states, and the search returned something.
C24_Witness ==
    /\ iso_request # NotYet
    /\ iso_worlds[1] # iso_worlds[2]
    /\ iso_result[1] # <<>>

----------------------------------------------------------------------------
(* bm25_matcher.py: BM25Matcher *)

MaxDocs == 3

\* Texts are sequences of words; "!" stands for a run of punctuation.
BmDocs == {<<"Dog">>, <<"cat", "!", "cat">>, <<"dog", "cat">>}

BmQueries == {<<"dog">>, <<"Dog", "cat">>, <<"road">>, <<"!">>}

Corpora == UNION {[1..n -> BmDocs] : n \in 0..MaxDocs}

\* re.sub(r'[^\w\s]', ' ', text.lower()), then split
tokenize(text) == SelectSeq(LowerAll(text), LAMBDA word : word # "!")

RECURSIVE SumSeq(_)
SumSeq(s) == IF s = <<>> THEN 0 ELSE Head(s) + SumSeq(Tail(s))

\* math.log((doc_count - freq + 0.5) / (freq + 0.5) + 1), in ten-thousandths
IdfOf(doc_count, freq) ==
    CASE doc_count = 1 -> 2877
      [] doc_count = 2 -> IF freq = 1 THEN 6931 ELSE 1823
      [] doc_count = 3 -> IF freq = 1 THEN 9808 ELSE IF freq = 2 THEN 4700 ELSE 1335
      [] OTHER -> IF freq = 1 THEN 12040 ELSE IF freq = 2 THEN 6931
                  ELSE IF freq = 3 THEN 3567 ELSE 1054

\* Term frequency: Counter(doc_tokens).get(token, 0)
TermFreq(doc_tokens, token) == Cardinality({i \in 1..Len(doc_tokens) : doc_tokens[i] = token})

\* score_document, with k1 = 1.5 and b = 0.75: each query token known to idf adds
\*   idf * tf * 2.5 / (tf + 1.5 * (0.25 + 0.75 * doc_length / avg_doc_length)),
\* here with numerator and denominator multiplied by 8 * sum of the lengths;
\* scores are ten-thousandths, each addend rounded down.
RECURSIVE ScoreTokens(_, _, _)
ScoreTokens(query_tokens, doc_index, score) ==
    IF query_tokens = <<>> THEN score
    ELSE LET token == Head(query_tokens)
             tf == TermFreq(tokenize(bm_documents[doc_index]), token)
             total == bm_avg_doc_length.num
             doc_length == bm_doc_lengths[doc_index]
         IN IF token \notin DOMAIN bm_idf
              THEN ScoreTokens(Tail(query_tokens), doc_index, score)
              ELSE ScoreTokens(Tail(query_tokens), doc_index,
                       score + (bm_idf[token] * tf * 20 * total)
                                 \div (8 * tf * total + 3 * total
                                         + 9 * doc_length * bm_avg_doc_length.den))

score_document(q, doc_index) ==
    IF doc_index > Len(bm_documents) THEN 0
    ELSE ScoreTokens(tokenize(q), doc_index, 0)

\* A plausible slip: every document is kept.
Scored_any(score) == TRUE

\* "if score > 0" of search
Scored(score) == score > 0

\* scores.sort(key=lambda x: x[1], reverse=True): stable
RECURSIVE InsertScored(_, _)
InsertScored(x, s) ==
    IF s = <<>> THEN <<x>>
    ELSE IF x[2] > Head(s)[2] THEN <<x>> \o s
    ELSE <<Head(s)>> \o InsertScored(x, Tail(s))

RECURSIVE SortScored(_)
SortScored(s) ==
    IF s = <<>> THEN <<>>
    ELSE InsertScored(s[Len(s)], SortScored(SubSeq(s, 1, Len(s) - 1)))

\* search: (doc_index, score) pairs, doc_index counted from 1 here
bm_search(q, top_k) ==
    LET all == [i \in 1..Len(bm_documents) |-> <<i, score_document(q, i)>>]
        scores == SelectSeq(all, LAMBDA pair : Scored(pair[2]))
        sorted == SortScored(scores)
    IN SubSeq(sorted, 1, Min(top_k, Len(sorted)))

\* The tokens of the tokenized documents
TokensOf(tokenized_docs) ==
    UNION {SeqRange(tokenized_docs[i]) : i \in 1..Len(tokenized_docs)}

InitBm == IdleBm /\ IdleOld /\ IdleNotBm

\* index_documents(documents)
BmIndex ==
    \E documents \in Corpora :
        LET tokenized_docs == [i \in 1..Len(documents) |-> tokenize(documents[i])]
            doc_lengths == [i \in 1..Len(documents) |-> Len(tokenized_docs[i])]
            doc_freqs == [token \in TokensOf(tokenized_docs) |->
                             Cardinality({i \in 1..Len(documents) :
                                             token \in SeqRange(tokenized_docs[i])})]
        IN /\ bm_documents' = documents
           /\ bm_doc_count' = Len(documents)
           /\ bm_doc_lengths' = doc_lengths
           /\ bm_avg_doc_length' =
                 IF Len(documents) > 0 THEN Frac(SumSeq(doc_lengths), Len(documents))
                 ELSE FZero
           /\ bm_doc_freqs' = doc_freqs
           /\ bm_idf' = [token \in DOMAIN doc_freqs |-> IdfOf(Len(documents), doc_freqs[token])]
           /\ bm_op' = [called |-> TRUE, op |-> "index_documents", documents |-> documents]
           /\ UNCHANGED <<vars_old, vars_not_bm>>

\* search(query, top_k)
BmSearch ==
    \E q \in BmQueries, top_k \in 0..MaxTopK :
        /\ bm_op' = [called |-> TRUE, op |-> "search", query |-> q, top_k |-> top_k,
                      results |-> bm_search(q, top_k)]
        /\ UNCHANGED <<bm_documents, bm_doc_lengths, bm_avg_doc_length, bm_doc_freqs,
                        bm_idf, bm_doc_count, vars_old, vars_not_bm>>

NextBm == BmIndex \/ BmSearch

SpecBm == InitBm /\ [][NextBm]_vars

----------------------------------------------------------------------------
(* Properties of BM25Matcher *)

\* The query and the document have a token in common.
SharesToken(q, document) ==
    \E i \in 1..Len(q), j \in 1..Len(document) :
        /\ q[i] # "!" /\ lower(q[i]) = lower(document[j])

SearchReturned == bm_op # NotYet /\ bm_op.op = "search"

\* C25: search returns only documents that score above 0, which are those
\* sharing a token with the query; the best min(top_k, their number) of
\* them, by non-increasing score, equal scores in insertion order; and the
\* statistics always are those of the corpus indexed last.
C25_SearchContract ==
    /\ bm_doc_count = Len(bm_documents)
    /\ DOMAIN bm_doc_lengths = 1..Len(bm_documents)
    /\ DOMAIN bm_doc_freqs = DOMAIN bm_idf
    /\ \A token \in {"dog", "cat", "road"} :
          LET holding == {i \in 1..Len(bm_documents) :
                             \E j \in 1..Len(bm_documents[i]) :
                                 lower(bm_documents[i][j]) = token}
          IN IF holding = {} THEN token \notin DOMAIN bm_doc_freqs
             ELSE /\ token \in DOMAIN bm_doc_freqs
                  /\ bm_doc_freqs[token] = Cardinality(holding)
    /\ SearchReturned =>
          LET results == bm_op.results
              matching == {i \in 1..Len(bm_documents) :
                              SharesToken(bm_op.query, bm_documents[i])}
          IN /\ Len(results) = Min(bm_op.top_k, Cardinality(matching))
             /\ \A k \in 1..Len(results) :
                   /\ results[k][1] \in matching
                   /\ results[k][2] > 0
                   /\ results[k][2] = score_document(bm_op.query, results[k][1])
             /\ \A k, l \in 1..Len(results) :
                   k < l => \/ results[k][2] > results[l][2]
                            \/ /\ results[k][2] = results[l][2]
                               /\ results[k][1] < results[l][1]
             /\ \A k \in 1..Len(results) :
                   \A i \in matching \ {results[l][1] : l \in 1..Len(results)} :
                       \/ results[k][2] > score_document(bm_op.query, i)
                       \/ /\ results[k][2] = score_document(bm_op.query, i)
                          /\ results[k][1] < i

\* A search over a re-indexed corpus returned two documents of equal score
\* in insertion order and left out a matching one.
C25_Witness ==
    /\ SearchReturned
    /\ Len(bm_op.results) = 2
    /\ bm_op.results[1][2] = bm_op.results[2][2]
    /\ Len(bm_documents) = 3
    /\ \A i \in 1..3 : SharesToken(bm_op.query, bm_documents[i])

----------------------------------------------------------------------------
(* workers/processor.py: process_image_task, one background task per upload *)

ProcImages == {1, 2}

StatusEvent(image_id, status) == [image_id |-> image_id, status |-> status]

Logged(i, what) == [pi_log EXCEPT ![i] = Append(@, what)]

\* Every image was saved with processing_status "pending" and its task queued.
InitProc ==
    /\ pi_pc = [i \in ProcImages |-> "queued"]
    /\ pi_status = [i \in ProcImages |-> "pending"]
    /\ pi_index = {}
    /\ pi_events = <<>>
    /\ pi_log = [i \in ProcImages |-> <<>>]
    /\ IdleOld /\ IdleNotProc

\* The select of the image row: it raises, finds no row and returns, or
\* finds the row.
ProcSelect(i) ==
    /\ pi_pc[i] = "queued"
    /\ \E ok \in BOOLEAN :
         pi_pc' = [pi_pc EXCEPT ![i] =
                     IF ~ok THEN "handler"
                     ELSE IF pi_status[i] = "absent" THEN "done" ELSE "found"]
    /\ UNCHANGED <<pi_status, pi_index, pi_events, pi_log, vars_old, vars_not_proc>>

\* processing_status = "processing" and its commit; an update of a row that
\* is gone raises as a failed commit does.
ProcMarkProcessing(i) ==
    /\ pi_pc[i] = "found"
    /\ \E ok \in BOOLEAN :
         IF ok /\ pi_status[i] # "absent"
         THEN /\ pi_status' = [pi_status EXCEPT ![i] = "processing"]
              /\ pi_log' = Logged(i, "processing")
              /\ pi_pc' = [pi_pc EXCEPT ![i] = "processing"]
         ELSE /\ pi_pc' = [pi_pc EXCEPT ![i] = "handler"]
              /\ UNCHANGED <<pi_status, pi_log>>
    /\ UNCHANGED <<pi_index, pi_events, vars_old, vars_not_proc>>

\* Image.open(...).convert("RGB") and encode_image.
ProcEncode(i) ==
    /\ pi_pc[i] = "processing"
    /\ \E ok \in BOOLEAN :
         pi_pc' = [pi_pc EXCEPT ![i] = IF ok THEN "encoded" ELSE "handler"]
    /\ UNCHANGED <<pi_status, pi_index, pi_events, pi_log, vars_old, vars_not_proc>>

\* upsert_image_embedding.
ProcUpsert(i) ==
    /\ pi_pc[i] = "encoded"
    /\ \E ok \in BOOLEAN :
         IF ok
         THEN /\ pi_index' = pi_index \cup {i}
              /\ pi_log' = Logged(i, "upsert")
              /\ pi_pc' = [pi_pc EXCEPT ![i] = "upserted"]
         ELSE /\ pi_pc' = [pi_pc EXCEPT ![i] = "handler"]
              /\ UNCHANGED <<pi_index, pi_log>>
    /\ UNCHANGED <<pi_status, pi_events, vars_old, vars_not_proc>>

\* processing_status = "completed" and its commit.
ProcMarkCompleted(i) ==
    /\ pi_pc[i] = "upserted"
    /\ \E ok \in BOOLEAN :
         IF ok /\ pi_status[i] # "absent"
         THEN /\ pi_status' = [pi_status EXCEPT ![i] = "completed"]
              /\ pi_log' = Logged(i, "completed")
              /\ pi_pc' = [pi_pc EXCEPT ![i] = "completed"]
         ELSE /\ pi_pc' = [pi_pc EXCEPT ![i] = "handler"]
              /\ UNCHANGED <<pi_status, pi_log>>
    /\ UNCHANGED <<pi_index, pi_events, vars_old, vars_not_proc>>

\* event_bus.publish of the "completed" event; publish swallows the errors
\* of the queues and does not raise.
ProcPublishCompleted(i) ==
    /\ pi_pc[i] = "completed"
    /\ pi_events' = Append(pi_events, StatusEvent(i, "completed"))
    /\ pi_pc' = [pi_pc EXCEPT ![i] = "faces"]
    /\ UNCHANGED <<pi_status, pi_index, pi_log, vars_old, vars_not_proc>>

\* A plausible slip: the call of process_faces_for_image without its own
\* try, so that its exception reaches the handler of the task.
ProcFaces_unguarded(i) ==
    /\ pi_pc[i] = "faces"
    /\ \E ok \in BOOLEAN :
         /\ pi_log' = Logged(i, IF ok THEN "faces" ELSE "faces_failed")
         /\ pi_pc' = [pi_pc EXCEPT ![i] = IF ok THEN "done" ELSE "handler"]
    /\ UNCHANGED <<pi_status, pi_index, pi_events, vars_old, vars_not_proc>>

\* process_faces_for_image inside try / except Exception: a failure is
\* printed and the task ends.
ProcFaces(i) ==
    /\ pi_pc[i] = "faces"
    /\ \E ok \in BOOLEAN :
         pi_log' = Logged(i, IF ok THEN "faces" ELSE "faces_failed")
    /\ pi_pc' = [pi_pc EXCEPT ![i] = "done"]
    /\ UNCHANGED <<pi_status, pi_index, pi_events, vars_old, vars_not_proc>>

\* except Exception: the select of the row again; an exception here is
\* swallowed by the inner try, and a missing row ends the task.
ProcHandlerSelect(i) ==
    /\ pi_pc[i] = "handler"
    /\ \E ok \in BOOLEAN :
         pi_pc' = [pi_pc EXCEPT ![i] =
                     IF ok /\ pi_status[i] # "absent" THEN "h_found" ELSE "done"]
    /\ UNCHANGED <<pi_status, pi_index, pi_events, pi_log, vars_old, vars_not_proc>>

\* processing_status = "failed" and its commit.
ProcMarkFailed(i) ==
    /\ pi_pc[i] = "h_found"
    /\ \E ok \in BOOLEAN :
         IF ok /\ pi_status[i] # "absent"
         THEN /\ pi_status' = [pi_status EXCEPT ![i] = "failed"]
              /\ pi_log' = Logged(i, "failed")
              /\ pi_pc' = [pi_pc EXCEPT ![i] = "h_failed"]
         ELSE /\ pi_pc' = [pi_pc EXCEPT ![i] = "done"]
              /\ UNCHANGED <<pi_status, pi_log>>
    /\ UNCHANGED <<pi_index, pi_events, vars_old, vars_not_proc>>

\* event_bus.publish of the "failed" event.
ProcPublishFailed(i) ==
    /\ pi_pc[i] = "h_failed"
    /\ pi_events' = Append(pi_events, StatusEvent(i, "failed"))
    /\ pi_pc' = [pi_pc EXCEPT ![i] = "done"]
    /\ UNCHANGED <<pi_status, pi_index, pi_log, vars_old, vars_not_proc>>

\* DELETE /images/{image_id}: the embedding and the row are removed.
DeleteImage(i) ==
    /\ pi_status[i] # "absent"
    /\ pi_status' = [pi_status EXCEPT ![i] = "absent"]
    /\ pi_index' = pi_index \ {i}
    /\ UNCHANGED <<pi_pc, pi_events, pi_log, vars_old, vars_not_proc>>

process_image_task(i) ==
    \/ ProcSelect(i) \/ ProcMarkProcessing(i) \/ ProcEncode(i) \/ ProcUpsert(i)
    \/ ProcMarkCompleted(i) \/ ProcPublishCompleted(i) \/ ProcFaces(i)
    \/ ProcHandlerSelect(i) \/ ProcMarkFailed(i) \/ ProcPublishFailed(i)

NextProc == \E i \in ProcImages : process_image_task(i) \/ DeleteImage(i)

SpecProc == InitProc /\ [][NextProc]_vars

(* Properties of process_image_task *)

Has(log, what) == \E k \in DOMAIN log : log[k] = what

Before(log, first, then) ==
    \A k \in DOMAIN log : log[k] = then => \E j \in 1..(k - 1) : log[j] = first

\* The order of a task's steps, apart from the set of status moves: the
\* upsert precedes the commit of "completed", an event follows the commit
\* of its status, and "completed" never becomes "failed".
ProcOrder(i) ==
    /\ Before(pi_log'[i], "upsert", "completed")
    /\ (pi_events' # pi_events =>
          LET e == pi_events'[Len(pi_events')]
          IN e.image_id = i => Has(pi_log[i], e.status))
    /\ (pi_status[i] = "completed" => pi_status'[i] # "failed")

StatusMoves(i, allowed) ==
    (pi_status'[i] # pi_status[i] /\ pi_status'[i] # "absent")
        => <<pi_status[i], pi_status'[i]>> \in allowed

\* C29: processing_status moves only pending -> processing -> completed or
\* processing -> failed; "completed" is committed only after the upsert
\* succeeded; a status event is published only after its status is
\* committed; a completed image is never made "failed" afterwards.
C29_StatusPath ==
    [][\A i \in ProcImages :
          /\ StatusMoves(i, {<<"pending", "processing">>,
                             <<"processing", "completed">>,
                             <<"processing", "failed">>})
          /\ ProcOrder(i)]_vars

\* C29 as amended: the moves are pending -> processing -> completed, and
\* pending or processing -> failed; the three orderings as stated.
C29_StatusPathAmended ==
    [][\A i \in ProcImages :
          /\ StatusMoves(i, {<<"pending", "processing">>,
                             <<"processing", "completed">>,
                             <<"processing", "failed">>,
                             <<"pending", "failed">>})
          /\ ProcOrder(i)]_vars

\* One image was completed, its event published and its face processing
\* failed; the other was marked failed straight from "pending" and its
\* event published.
C29_Witness ==
    /\ pi_status[1] = "completed" /\ pi_pc[1] = "done"
    /\ pi_log[1] = <<"processing", "upsert", "completed", "faces_failed">>
    /\ pi_status[2] = "failed" /\ pi_pc[2] = "done"
    /\ pi_log[2] = <<"failed">>
    /\ pi_events = <<StatusEvent(2, "failed"), StatusEvent(1, "completed")>>

----------------------------------------------------------------------------
(* services/events.py: EventBus, and its use by routers/sse.py *)

\* number of queues event_generator creates
MaxQueues == 2

\* number of publish calls
MaxEvents == 2

BusUsers == {"a", "b"}

BusQueues == 1..MaxQueues

\* subscribe: self._subscribers[user_id].add(queue); the defaultdict makes
\* the set when the key is new.
subscribe(subscribers, user_id, queue) ==
    IF user_id \in DOMAIN subscribers
    THEN [subscribers EXCEPT ![user_id] = @ \cup {queue}]
    ELSE [u \in DOMAIN subscribers \cup {user_id} |->
            IF u = user_id THEN {queue} ELSE subscribers[u]]

\* unsubscribe: discard the queue and delete the key of an emptied set.
unsubscribe(subscribers, user_id, queue) ==
    IF user_id \notin DOMAIN subscribers THEN subscribers
    ELSE IF subscribers[user_id] \ {queue} = {}
         THEN Restrict(subscribers, DOMAIN subscribers \ {user_id})
         ELSE [subscribers EXCEPT ![user_id] = @ \ {queue}]

\* A plausible slip: publish walks the queues of every user.
PublishTargets_all(subscribers, user_id) ==
    UNION {subscribers[u] : u \in DOMAIN subscribers}

\* publish: the queues the event is put on.
PublishTargets(subscribers, user_id) ==
    IF user_id \in DOMAIN subscribers THEN subscribers[user_id] ELSE {}

InitBus ==
    /\ eb_subscribers = <<>>
    /\ eb_owner = [q \in BusQueues |-> ""]
    /\ eb_state = [q \in BusQueues |-> "unused"]
    /\ eb_put = [q \in BusQueues |-> <<>>]
    /\ eb_got = [q \in BusQueues |-> 0]
    /\ eb_published = <<>>
    /\ IdleOld /\ IdleNotBus

\* event_generator starts: queue = event_bus.subscribe(user_id).
EbSubscribe(user_id) ==
    /\ \E q \in BusQueues : eb_state[q] = "unused"
    /\ LET queue == CHOOSE q \in BusQueues :
                      /\ eb_state[q] = "unused"
                      /\ \A r \in BusQueues : eb_state[r] = "unused" => q <= r
       IN /\ eb_subscribers' = subscribe(eb_subscribers, user_id, queue)
          /\ eb_owner' = [eb_owner EXCEPT ![queue] = user_id]
          /\ eb_state' = [eb_state EXCEPT ![queue] = "subscribed"]
    /\ UNCHANGED <<eb_put, eb_got, eb_published, vars_old, vars_not_bus>>

\* event_generator takes the next event of its queue and yields it.
EbGet(queue) ==
    /\ eb_state[queue] = "subscribed"
    /\ eb_got[queue] < Len(eb_put[queue])
    /\ eb_got' = [eb_got EXCEPT ![queue] = @ + 1]
    /\ UNCHANGED <<eb_subscribers, eb_owner, eb_state, eb_put, eb_published,
                   vars_old, vars_not_bus>>

\* event_generator ends: finally event_bus.unsubscribe(user_id, queue).
EbUnsubscribe(queue) ==
    /\ eb_state[queue] = "subscribed"
    /\ eb_subscribers' = unsubscribe(eb_subscribers, eb_owner[queue], queue)
    /\ eb_state' = [eb_state EXCEPT ![queue] = "unsubscribed"]
    /\ UNCHANGED <<eb_owner, eb_put, eb_got, eb_published, vars_old, vars_not_bus>>

\* publish: queue.put on an unbounded asyncio.Queue never waits, so the loop
\* over the queues runs without another coroutine in between.
EbPublish(user_id) ==
    /\ Len(eb_published) < MaxEvents
    /\ LET event == StatusEvent(Len(eb_published) + 1, "completed")
       IN /\ eb_put' = [q \in BusQueues |->
                          IF q \in PublishTargets(eb_subscribers, user_id)
                          THEN Append(eb_put[q], event) ELSE eb_put[q]]
          /\ eb_published' =
                Append(eb_published, [user_id |-> user_id, event |-> event])
    /\ UNCHANGED <<eb_subscribers, eb_owner, eb_state, eb_got, vars_old, vars_not_bus>>

NextBus ==
    \/ \E u \in BusUsers : EbSubscribe(u)
    \/ \E q \in BusQueues : EbGet(q)
    \/ \E q \in BusQueues : EbUnsubscribe(q)
    \/ \E u \in BusUsers : EbPublish(u)

SpecBus == InitBus /\ [][NextBus]_vars

(* Properties of the EventBus *)

\* C30: a published event is put exactly once on every queue subscribed for
\* its user at that time and on no other queue; nothing is put on a queue
\* after its unsubscribe; a queue holds events in publish order; the
\* subscriber map holds no key with an empty set.
C30_BusDelivery ==
    [][/\ IF eb_published' # eb_published
          THEN LET p == eb_published'[Len(eb_published')]
                   current == {q \in BusQueues : /\ eb_state[q] = "subscribed"
                                                 /\ eb_owner[q] = p.user_id}
               IN \A q \in BusQueues :
                     eb_put'[q] = IF q \in current
                                  THEN Append(eb_put[q], p.event) ELSE eb_put[q]
          ELSE eb_put' = eb_put
       /\ \A q \in BusQueues :
            /\ eb_state[q] = "unsubscribed" => eb_put'[q] = eb_put[q]
            /\ \A j, k \in DOMAIN eb_put'[q] :
                 j < k => eb_put'[q][j].image_id < eb_put'[q][k].image_id
            /\ \A k \in DOMAIN eb_put'[q] :
                 \E n \in DOMAIN eb_published' :
                    eb_published'[n] = [user_id |-> eb_owner'[q], event |-> eb_put'[q][k]]
       /\ \A u \in DOMAIN eb_subscribers' : eb_subscribers'[u] # {}]_vars

\* A queue of user "a" and one of user "b": a's first event reached a's
\* queue alone, a's queue was then unsubscribed and its key deleted, and a's
\* second event reached no queue.
C30_Witness ==
    /\ Len(eb_published) = 2
    /\ eb_published[1].user_id = "a" /\ eb_published[2].user_id = "a"
    /\ eb_owner = <<"a", "b">>
    /\ eb_state = <<"unsubscribed", "subscribed">>
    /\ eb_put[1] = <<StatusEvent(1, "completed")>>
    /\ eb_got[1] = 1
    /\ eb_put[2] = <<>>
    /\ DOMAIN eb_subscribers = {"b"}

----------------------------------------------------------------------------
(* Properties of cluster_faces with min_samples = 1 *)

\* C28: a cluster_faces run gives every face it selected a cluster created
\* by that run and leaves no face unassigned; it reports no outliers and
\* clustered = total_faces; and a run that directly follows a run selects
\* nothing, creates no cluster and reports all zeros.
C28_NoFaceLeftUnassigned ==
    [][\A r \in Requests :
          LET commits == cf_pc[r] = "selected" /\ cf_pc'[r] = "pending"
              selects == cf_pc[r] = "pending" /\ cf_pc'[r] = "selected"
              returns_early == /\ cf_pc' = cf_pc
                               /\ people_op' # NotYet
                               /\ people_op'.op = "cluster_faces"
              follows_a_run == people_op # NotYet /\ people_op.op = "cluster_faces"
          IN /\ commits =>
                   /\ \A f \in cf_rows[r] :
                         /\ faces'[f].cluster_id \in DOMAIN face_clusters'
                         /\ faces'[f].cluster_id \notin DOMAIN face_clusters
                   /\ \A f \in DOMAIN faces' : faces'[f].cluster_id # NoCluster
                   /\ people_op'.outcome.outliers = 0
                   /\ people_op'.outcome.total_faces = Cardinality(cf_rows[r])
                   /\ people_op'.outcome.clustered = people_op'.outcome.total_faces
                   /\ people_op'.outcome.clusters_created >= 1
             /\ follows_a_run => ~selects
             /\ (follows_a_run /\ returns_early) =>
                   /\ people_op' = Outcome("cluster_faces", Stats(0, 0, 0, 0))
                   /\ faces' = faces /\ face_clusters' = face_clusters
                   /\ uuids_made' = uuids_made]_vars

\* A run has made a cluster of a single face and one of two faces, and the
\* run after it has returned all zeros.
C28_Witness ==
    /\ people_op = Outcome("cluster_faces", Stats(0, 0, 0, 0))
    /\ \E c, d \in DOMAIN face_clusters :
          /\ Cardinality(FacesOf(c)) = 1 /\ Cardinality(FacesOf(d)) = 2
          /\ face_clusters[c].name = PersonName(1) /\ face_clusters[d].name = PersonName(2)
    /\ \A f \in DOMAIN faces : faces[f].cluster_id # NoCluster

----------------------------------------------------------------------------
(* Properties of the relaxation ladder *)

\* The category an object is a member of, None when it is in none.
TopCategory(obj) ==
    IF \E k \in 1..Len(OBJECT_SYNONYMS) : obj \in OBJECT_SYNONYMS[k][2]
      THEN OBJECT_SYNONYMS[CHOOSE k \in 1..Len(OBJECT_SYNONYMS) :
                               obj \in OBJECT_SYNONYMS[k][2]][1]
      ELSE None

\* C26: level 0 returns the query attributes; level 1 replaces each object
\* that has a category by the category and changes nothing else; level 2
\* is level 1 with scene cleared; level 3 is level 2 with weather and emotion
\* cleared.
C26_LadderLevels ==
    match_level >= 0 =>
        /\ match_level = 0 => match_relaxed = match_q
        /\ match_relaxed.action = match_q.action
        /\ match_relaxed.time = match_q.time
        /\ match_level >= 1 =>
              /\ Len(match_relaxed.objects) = Len(match_q.objects)
              /\ \A i \in 1..Len(match_q.objects) :
                    match_relaxed.objects[i] =
                        IF TopCategory(match_q.objects[i]) # None
                          THEN TopCategory(match_q.objects[i])
                          ELSE match_q.objects[i]
        /\ match_relaxed.scene = IF match_level >= 2 THEN None ELSE match_q.scene
        /\ match_relaxed.weather = IF match_level >= 3 THEN None ELSE match_q.weather
        /\ match_relaxed.emotion = IF match_level >= 3 THEN None ELSE match_q.emotion

\* Level 3 applied to a query with a categorised and an uncategorised
\* object, a scene, a weather and an emotion.
C26_Witness ==
    /\ match_level = 3
    /\ match_q.objects = <<"man", "tree">>
    /\ match_relaxed.objects = <<"person", "tree">>
    /\ match_q.scene # None /\ match_q.weather = "sunny" /\ match_q.emotion # None

----------------------------------------------------------------------------
(* Properties of /search under cache and file failures *)

\* C21 as stated: during diversity re-ranking a cache entry that is absent,
\* corrupt or unreachable leads to recomputation, never to the request
\* failing.  Violated: the exception of client.get or pickle.loads leaves
\* the loop and the handler answers HTTP 500.
C21_CacheDegrades ==
    ~(ms_pc = "failed" /\ ms_error \in {"ConnectionError", "UnpicklingError"})

\* C22 as stated: a candidate whose row, file or image cannot be fetched is
\* dropped alone; the request does not fail on it and no such candidate is
\* returned.  Violated: Image.open raising on one candidate fails the request.
C22_OnlyCandidateDropped ==
    /\ ~(ms_pc = "failed" /\ ms_error = "image")
    /\ (ms_pc = "done" /\ ms_person = NoCluster) =>
           \A i \in 1..Len(ms_results) :
               ms_results[i].image_id \notin ms_unavailable \cup ms_unloadable

====
